---------------------------- MODULE Spec2Model ----------------------------
(***************************************************************************)
(* Message-archive read path of macos-mcp: the typedstream length decoder, *)
(* the attributedBody text recovery (marker strategies, printable-region   *)
(* scan, printable classifier), the text resolver and the row-to-record    *)
(* timestamp mapping; the two timestamp conversions in IEEE double         *)
(* arithmetic; the MessagesService queries over a small archive; the       *)
(* contact filter with the contacts CLI it resolves names through, as one  *)
(* call and step by step; the cached connection with the query helpers;    *)
(* and sendMessage.                                                        *)
(*                                                                         *)
(* Conventions.                                                            *)
(*  - A Buffer is a sequence of bytes (0..255).  Positions are 0-based as  *)
(*    in the source; ByteAt(blob, i) is blob[i].                           *)
(*  - A JavaScript string is the sequence of its UTF-16 code units.        *)
(*  - null is the one-element sequence << -1 >>, which is neither a Buffer *)
(*    nor a string.                                                        *)
(*  - A 32-bit unsigned number is kept as two 16-bit limbs [hi, lo]        *)
(*    (value hi * 65536 + lo), because TLC's integers are 32-bit           *)
(*    signed and readUInt32LE returns values up to 2^32 - 1.               *)
(***************************************************************************)
EXTENDS Integers, Sequences, FiniteSets, TLC

VARIABLES
  op,          \* the operation called ("decode", "parse", ...)
  pc,          \* "ready" ("idle" in a session) before the call, "done" after
               \* it, the step reached while a contact filter is under way
  blob,        \* Buffer | null argument
  pos,         \* read position argument of decodeTypedstreamLength
  textColumn,  \* string | null argument of getMessageText
  str,         \* string argument of isPrintableText
  frame,       \* how a synthetic (test-style) blob was assembled
  row,         \* the message / last-message row handed to the row mappers
  now,         \* the wall clock read by new Date()
  args,        \* the arguments of a timestamp or MessagesService operation
  db,          \* the rows of the archive the queries run against
  cli,         \* what the contact-resolution executable answers
  conn,        \* the cached connection, the handles opened and the store file
  ret          \* the value returned by the call

vars == <<op, pc, blob, pos, textColumn, str, frame, row, now, args, db, cli, conn, ret>>

null == << -1 >>

(***************************************************************************)
(* Bounds of the model.                                                    *)
(***************************************************************************)
MaxDecodeLen == 5
MaxChunks == 3
MaxTextLen == 2
MaxPad == 1
MaxStrLen == 4
MaxHandle == 2
MaxLimit == 2
MaxOpens == 3

(***************************************************************************)
(* Generic helpers.                                                        *)
(***************************************************************************)
\* All sequences over S of length 0..n.
SeqsUpTo(S, n) == UNION { [1..k -> S] : k \in 0..n }

Repeat(x, n) == [i \in 1 .. n |-> x]

\* The concatenation of a sequence of sequences.
RECURSIVE Flatten(_)
Flatten(ss) ==
  IF Len(ss) = 0 THEN << >>
  ELSE IF Len(ss) = 1 THEN ss[1]
  ELSE Flatten(SubSeq(ss, 1, Len(ss) \div 2))
       \o Flatten(SubSeq(ss, Len(ss) \div 2 + 1, Len(ss)))

\* blob[i] of a Buffer: the byte, or undefined (-1) outside 0..length-1.
ByteAt(b, i) == IF i >= 0 /\ i < Len(b) THEN b[i + 1] ELSE -1

\* Buffer.subarray(start, end): clamps both ends to the buffer.
Min(a, b) == IF a <= b THEN a ELSE b
Max(a, b) == IF a >= b THEN a ELSE b
subarray(b, start, end) ==
  LET s == Min(Max(start, 0), Len(b))
      e == Min(Max(end, 0), Len(b))
  IN  IF e <= s THEN << >> ELSE SubSeq(b, s + 1, e)

\* Two-limb unsigned numbers.
Wide(hi, lo) == [hi |-> hi, lo |-> lo]
WidePos(w) == w.hi > 0 \/ (w.hi = 0 /\ w.lo > 0)
WideLess(w, n) == w.hi < n \div 65536 \/ (w.hi = n \div 65536 /\ w.lo < n % 65536)
\* The integer value of a wide number known to be below 2^31.
WideInt(w) == w.hi * 65536 + w.lo

(***************************************************************************)
(* decodeTypedstreamLength (parser.ts 21-49).                              *)
(* The result carries, beside length and bytesConsumed, the ghost fields   *)
(* reads (the buffer indices the call read) and threw (a RangeError        *)
(* escaped the call).                                                      *)
(***************************************************************************)
DecodeResult(length, consumed, reads, threw) ==
  [length |-> length, bytesConsumed |-> consumed, reads |-> reads, threw |-> threw]

\* Mutant: the four bytes read big-endian.
readUInt32BE(b, off) ==
  IF off < 0 \/ off + 4 > Len(b)
  THEN [threw |-> TRUE, value |-> [hi |-> 0, lo |-> 0]]
  ELSE [threw |-> FALSE,
        value |-> [hi |-> ByteAt(b, off + 1) + 256 * ByteAt(b, off),
                   lo |-> ByteAt(b, off + 3) + 256 * ByteAt(b, off + 2)]]

\* Buffer.readUInt32LE(offset): RangeError unless offset + 4 <= length.
readUInt32LE(b, off) ==
  IF off < 0 \/ off + 4 > Len(b)
  THEN [threw |-> TRUE, value |-> Wide(0, 0)]
  ELSE [threw |-> FALSE,
        value |-> Wide(ByteAt(b, off + 2) + 256 * ByteAt(b, off + 3),
                       ByteAt(b, off) + 256 * ByteAt(b, off + 1))]

\* Mutant: the two bytes combined big-endian.
U16BE(b, p) ==
  [hi |-> 0, lo |-> 256 * Max(ByteAt(b, p + 1), 0) + Max(ByteAt(b, p + 2), 0)]

\* blob[pos + 1] | (blob[pos + 2] << 8); an undefined operand counts as 0.
U16LE(b, p) ==
  LET b1 == Max(ByteAt(b, p + 1), 0)
      b2 == Max(ByteAt(b, p + 2), 0)
  IN  Wide(0, b1 + 256 * b2)

DecodeU32(p, r) == DecodeResult(r.value, 5, {p} \cup (p + 1 .. p + 4), r.threw)

\* Mutant: the truncation guards off by one (pos + 2 > blob.length,
\* pos + 4 > blob.length).
decodeTypedstreamLength_LateGuard(b, p) ==
  IF p >= Len(b) THEN DecodeResult(Wide(0, 0), 0, {}, FALSE)
  ELSE LET firstByte == ByteAt(b, p) IN
    IF firstByte < 128 THEN DecodeResult(Wide(0, firstByte), 1, {p}, FALSE)
    ELSE IF firstByte = 129 THEN
      IF p + 2 > Len(b) THEN DecodeResult(Wide(0, 0), 1, {p}, FALSE)
      ELSE DecodeResult(U16LE(b, p), 3, {p, p + 1, p + 2}, FALSE)
    ELSE IF firstByte = 130 THEN
      IF p + 4 > Len(b) THEN DecodeResult(Wide(0, 0), 1, {p}, FALSE)
      ELSE DecodeU32(p, readUInt32LE(b, p + 1))
    ELSE DecodeResult(Wide(0, firstByte), 1, {p}, FALSE)

decodeTypedstreamLength(b, p) ==
  IF p >= Len(b) THEN DecodeResult(Wide(0, 0), 0, {}, FALSE)
  ELSE LET firstByte == ByteAt(b, p) IN
    IF firstByte < 128 THEN DecodeResult(Wide(0, firstByte), 1, {p}, FALSE)
    ELSE IF firstByte = 129 THEN
      IF p + 2 >= Len(b) THEN DecodeResult(Wide(0, 0), 1, {p}, FALSE)
      ELSE DecodeResult(U16LE(b, p), 3, {p, p + 1, p + 2}, FALSE)
    ELSE IF firstByte = 130 THEN
      IF p + 4 >= Len(b) THEN DecodeResult(Wide(0, 0), 1, {p}, FALSE)
      ELSE DecodeU32(p, readUInt32LE(b, p + 1))
    ELSE DecodeResult(Wide(0, firstByte), 1, {p}, FALSE)

(***************************************************************************)
(* Byte strings the parser looks for, as Buffer.from('...') yields them.   *)
(***************************************************************************)
nsStringMarker == <<78, 83, 83, 116, 114, 105, 110, 103>>
nsMutableMarker ==
  <<78, 83, 77, 117, 116, 97, 98, 108, 101, 83, 116, 114, 105, 110, 103>>
streamHeader == <<115, 116, 114, 101, 97, 109, 116, 121, 112, 101, 100>>
nsMutableAttributedString ==
  <<78, 83, 77, 117, 116, 97, 98, 108, 101, 65, 116, 116, 114, 105, 98, 117,
    116, 101, 100, 83, 116, 114, 105, 110, 103>>

\* Buffer.indexOf(needle) / String.indexOf(needle): first 0-based index, or -1.
indexOf(b, m) ==
  LET hits == { i \in 0 .. Len(b) - Len(m) : SubSeq(b, i + 1, i + Len(m)) = m }
  IN  IF hits = {} THEN -1 ELSE CHOOSE i \in hits : \A j \in hits : i <= j

includes(s, m) == indexOf(s, m) # -1
startsWith(s, m) == Len(s) >= Len(m) /\ SubSeq(s, 1, Len(m)) = m

(***************************************************************************)
(* Buffer.toString('utf8'): the WHATWG UTF-8 decoder.  An ill-formed       *)
(* sequence yields U+FFFD per maximal subpart; a code point above U+FFFF   *)
(* becomes a surrogate pair of code units.                                 *)
(***************************************************************************)
ReplacementChar == 65533

CodeUnits(cp) ==
  IF cp < 65536 THEN << cp >>
  ELSE << 55296 + ((cp - 65536) \div 1024), 56320 + ((cp - 65536) % 1024) >>

\* b[i] (1-based) is a byte in lo..hi.
InRange(b, i, lo, hi) == i <= Len(b) /\ b[i] >= lo /\ b[i] <= hi

\* Range(lead, m): the values the m-th byte after a lead byte may take.
Need(c) ==
  IF c >= 194 /\ c <= 223 THEN 1
  ELSE IF c >= 224 /\ c <= 239 THEN 2
  ELSE IF c >= 240 /\ c <= 244 THEN 3
  ELSE 0
RangeLo(c, m) ==
  IF m = 1 /\ c = 224 THEN 160 ELSE IF m = 1 /\ c = 240 THEN 144 ELSE 128
RangeHi(c, m) ==
  IF m = 1 /\ c = 237 THEN 159 ELSE IF m = 1 /\ c = 244 THEN 143 ELSE 191

\* The bytes i+1 .. i+k continue the sequence the lead byte b[i] opens.
Continues(b, i, k) ==
  /\ k <= Need(b[i])
  /\ \A m \in 1 .. k : InRange(b, i + m, RangeLo(b[i], m), RangeHi(b[i], m))

\* b[i] was consumed as a continuation byte of an earlier lead byte.
Consumed(b, i) ==
  \E k \in 1 .. 3 : i - k >= 1 /\ Continues(b, i - k, k)

\* The code point of the complete sequence at i.
CodePointAt(b, i) ==
  IF Need(b[i]) = 1 THEN (b[i] % 32) * 64 + (b[i + 1] % 64)
  ELSE IF Need(b[i]) = 2
  THEN (b[i] % 16) * 4096 + (b[i + 1] % 64) * 64 + (b[i + 2] % 64)
  ELSE (b[i] % 8) * 262144 + (b[i + 1] % 64) * 4096
       + (b[i + 2] % 64) * 64 + (b[i + 3] % 64)

\* The code units the decoder emits when it reaches index i.
Utf8At(b, i) ==
  IF Consumed(b, i) THEN << >>
  ELSE IF b[i] < 128 THEN << b[i] >>
  ELSE IF Need(b[i]) > 0 /\ Continues(b, i, Need(b[i]))
  THEN CodeUnits(CodePointAt(b, i))
  ELSE << ReplacementChar >>

toStringUtf8(b) == Flatten([i \in 1 .. Len(b) |-> Utf8At(b, i)])

\* Buffer.from(string): the UTF-8 bytes of a string; a lone surrogate is
\* written as U+FFFD.
Utf8Bytes(cp) ==
  IF cp < 128 THEN << cp >>
  ELSE IF cp < 2048 THEN << 192 + (cp \div 64), 128 + (cp % 64) >>
  ELSE IF cp < 65536
  THEN << 224 + (cp \div 4096), 128 + ((cp \div 64) % 64), 128 + (cp % 64) >>
  ELSE << 240 + (cp \div 262144), 128 + ((cp \div 4096) % 64),
          128 + ((cp \div 64) % 64), 128 + (cp % 64) >>

IsHighSurrogate(u) == u >= 55296 /\ u <= 56319
IsLowSurrogate(u) == u >= 56320 /\ u <= 57343

\* for..of and Buffer.from walk a string by code point: index k (1-based)
\* starts one unless it is the low half of a surrogate pair.
PairAt(s, k) ==
  k >= 1 /\ k < Len(s) /\ IsHighSurrogate(s[k]) /\ IsLowSurrogate(s[k + 1])
CharStarts(s) == { k \in 1 .. Len(s) : ~PairAt(s, k - 1) }

BufferFromAt(s, k) ==
  IF PairAt(s, k - 1) THEN << >>
  ELSE IF PairAt(s, k)
  THEN Utf8Bytes(65536 + (s[k] - 55296) * 1024 + (s[k + 1] - 56320))
  ELSE IF IsHighSurrogate(s[k]) \/ IsLowSurrogate(s[k])
  THEN Utf8Bytes(ReplacementChar)
  ELSE Utf8Bytes(s[k])

BufferFrom(s) == Flatten([k \in 1 .. Len(s) |-> BufferFromAt(s, k)])

(***************************************************************************)
(* isPrintableText (parser.ts 144-158).  for..of walks the string by code  *)
(* point (a surrogate pair is one step) and tests charCodeAt(0) of each;   *)
(* the ratio is taken against str.length, the number of code units.        *)
(***************************************************************************)
PrintableCode(code) ==
  (code >= 32 /\ code <= 126) \/ code > 127 \/ code = 10 \/ code = 13 \/ code = 9

\* The count the loop of lines 148-155 ends with.
printableCount(s) ==
  Cardinality({ k \in CharStarts(s) : PrintableCode(s[k]) })

\* printableCount / str.length >= 0.8, in integers.
isPrintableText(s) ==
  IF Len(s) = 0 THEN FALSE ELSE 5 * printableCount(s) >= 4 * Len(s)

(***************************************************************************)
(* extractPrintableRegions (parser.ts 163-216).                            *)
(***************************************************************************)
isPrintableByte(byte) ==
  (byte >= 32 /\ byte <= 126) \/ byte = 10 \/ byte = 13 \/ byte = 9
  \/ (byte >= 192 /\ byte <= 247)

\* The scan loop (lines 167-189) and the final region (lines 192-197): a
\* region opens at the first printable byte after a non-printable one (or at
\* index 0) and closes before the next non-printable byte (or at the end).
RunStarts(b) ==
  { i \in 0 .. Len(b) - 1 :
      isPrintableByte(ByteAt(b, i)) /\ (i = 0 \/ ~isPrintableByte(ByteAt(b, i - 1))) }
RunEnd(b, i) ==
  LET stops == { j \in i + 1 .. Len(b) - 1 : ~isPrintableByte(ByteAt(b, j)) }
  IN  IF stops = {} THEN Len(b) ELSE CHOOSE j \in stops : \A k \in stops : j <= k
RunText(b, i) == toStringUtf8(subarray(b, i, RunEnd(b, i)))

\* The k-th region start in the order the loop meets them.
NthStart(starts, k) ==
  CHOOSE i \in starts : Cardinality({ j \in starts : j < i }) = k - 1
regionTexts(b, starts) ==
  [k \in 1 .. Cardinality(starts) |-> RunText(b, NthStart(starts, k))]

\* The condition of lines 184 and 194 under which a region is pushed.
pushed(region) == Len(region) >= 2 /\ isPrintableText(region)

\* The regions array when the scan is over.
scanRegions(b) == SelectSeq(regionTexts(b, RunStarts(b)), pushed)

keepRegion(r) ==
  /\ Len(r) >= 2
  /\ ~startsWith(r, <<78, 83>>)
  /\ ~startsWith(r, streamHeader)
  /\ ~includes(r, nsStringMarker)
  /\ ~includes(r, nsMutableAttributedString)

filteredRegions(b) == SelectSeq(scanRegions(b), keepRegion)

\* Mutant: the comparison made with >=.
longer_OrEqual(a, b) == IF Len(a) >= Len(b) THEN a ELSE b

\* The reduce callback (a, b) => (a.length > b.length ? a : b).
longer(a, b) == IF Len(a) > Len(b) THEN a ELSE b

RECURSIVE reduceLonger(_, _)
reduceLonger(acc, rest) ==
  IF rest = << >> THEN acc ELSE reduceLonger(longer(acc, Head(rest)), Tail(rest))

longestOf(fr) ==
  IF Len(fr) > 0 THEN reduceLonger(Head(fr), Tail(fr)) ELSE << >>

extractPrintableRegions(b) == longestOf(filteredRegions(b))

(***************************************************************************)
(* parseAttributedBody (parser.ts 61-139).                                 *)
(***************************************************************************)
\* while (pos < blob.length && (blob[pos] === 0 || blob[pos] < 32)) pos++
\* The loop stops at the first index from p on whose byte is neither 0 nor
\* below 32, or at blob.length.
skipPadding(b, p) ==
  LET stops == { i \in p .. Len(b) - 1 : ~(ByteAt(b, i) = 0 \/ ByteAt(b, i) < 32) }
  IN  IF stops = {} THEN Max(p, Len(b))
      ELSE CHOOSE i \in stops : \A j \in stops : i <= j

SanityLimit == 100000

\* What one marker strategy (lines 69-94 for 'NSString', 97-115 for
\* 'NSMutableString') examined: found (the marker occurs), cursor (pos after
\* the padding skip), decoded (a length was decoded), accepted (the strategy
\* returns text).  reads is a ghost field: the buffer indices the strategy
\* read after the marker search.
NoCandidate(found, cursor, reads) ==
  [found |-> found, cursor |-> cursor, decoded |-> FALSE,
   length |-> Wide(0, 0), bytesConsumed |-> 0, accepted |-> FALSE,
   text |-> << >>, reads |-> reads, threw |-> FALSE]

\* Mutant: the end-of-buffer test left out.
reasonableLength_NoEnd(b, p, d) ==
  WidePos(d.length) /\ WideLess(d.length, SanityLimit)

\* possibleLength > 0 && possibleLength < 100000
\*   && pos + bytesConsumed + possibleLength <= blob.length
reasonableLength(b, p, d) ==
  /\ WidePos(d.length)
  /\ WideLess(d.length, SanityLimit)
  /\ p + d.bytesConsumed + WideInt(d.length) <= Len(b)

\* The candidate once its text is extracted (lines 87-91).
candidateText(p, d, skipReads, from, extracted) ==
  [found |-> TRUE, cursor |-> p, decoded |-> TRUE,
   length |-> d.length, bytesConsumed |-> d.bytesConsumed,
   accepted |-> isPrintableText(extracted),
   text |-> extracted,
   reads |-> skipReads \cup d.reads \cup (from .. from + WideInt(d.length) - 1),
   threw |-> FALSE]

\* The candidate once its length is decoded (lines 83-92).
candidateLength(b, p, d, skipReads) ==
  IF d.threw
  THEN [NoCandidate(TRUE, p, skipReads \cup d.reads) EXCEPT
          !.decoded = TRUE, !.threw = TRUE]
  ELSE IF reasonableLength(b, p, d)
  THEN candidateText(p, d, skipReads, p + d.bytesConsumed,
         toStringUtf8(subarray(b, p + d.bytesConsumed,
                               p + d.bytesConsumed + WideInt(d.length))))
  ELSE [NoCandidate(TRUE, p, skipReads \cup d.reads) EXCEPT
          !.decoded = TRUE, !.length = d.length,
          !.bytesConsumed = d.bytesConsumed]

\* The candidate once the padding is skipped (lines 77-83): start is the
\* index after the marker, p the cursor.
candidateAt(b, start, p) ==
  IF ~(p < Len(b)) THEN NoCandidate(TRUE, p, start .. Len(b) - 1)
  ELSE candidateLength(b, p, decodeTypedstreamLength(b, p), start .. p)

candidateAfter(b, markerIndex, n) ==
  IF markerIndex = -1 THEN NoCandidate(FALSE, -1, {})
  ELSE candidateAt(b, markerIndex + n, skipPadding(b, markerIndex + n))

markerCandidate(b, marker) == candidateAfter(b, indexOf(b, marker), Len(marker))

\* strategy is a ghost field: the number of the strategy whose return
\* statement produced the value (0 for the final return '').
ParseResult(value, strategy, threw) ==
  [value |-> value, strategy |-> strategy, threw |-> threw]

\* Strategies 3 and 4 (lines 117-134), text being extractPrintableRegions(blob).
regionStrategies(b, text) ==
  IF indexOf(b, streamHeader) # -1 /\ Len(text) > 0
  THEN ParseResult(text, 3, FALSE)
  ELSE IF Len(text) > 0 THEN ParseResult(text, 4, FALSE)
  ELSE ParseResult(<< >>, 0, FALSE)

\* Strategy 2 (lines 96-115), s2 being its candidate.
mutableStrategy(b, s2) ==
  IF s2.threw THEN ParseResult(<< >>, 2, TRUE)
  ELSE IF s2.accepted THEN ParseResult(s2.text, 2, FALSE)
  ELSE regionStrategies(b, extractPrintableRegions(b))

\* Strategy 1 (lines 67-94), s1 being its candidate.
stringStrategy(b, s1) ==
  IF s1.threw THEN ParseResult(<< >>, 1, TRUE)
  ELSE IF s1.accepted THEN ParseResult(s1.text, 1, FALSE)
  ELSE mutableStrategy(b, markerCandidate(b, nsMutableMarker))

\* Mutant: the 'NSMutableString' strategy tried before the 'NSString' one.
tryBlock_MutableFirst(b) ==
  LET s2 == markerCandidate(b, nsMutableMarker)
      s1 == markerCandidate(b, nsStringMarker)
  IN  IF s2.accepted THEN ParseResult(s2.text, 2, FALSE)
      ELSE IF s1.accepted THEN ParseResult(s1.text, 1, FALSE)
      ELSE regionStrategies(b, extractPrintableRegions(b))

\* The body of the try block (lines 67-134).
tryBlock(b) == stringStrategy(b, markerCandidate(b, nsStringMarker))

\* catch { return '' }
catchAll(r) == IF r.threw THEN ParseResult(<< >>, r.strategy, FALSE) ELSE r

parseAttributedBody(b) ==
  IF b = null \/ Len(b) = 0 THEN ParseResult(<< >>, 0, FALSE)
  ELSE catchAll(tryBlock(b))

(***************************************************************************)
(* getMessageText (parser.ts 221-229).                                     *)
(***************************************************************************)
\* WhiteSpace and LineTerminator code units, as String.prototype.trim sees
\* them.
IsWhiteSpace(u) ==
  \/ u \in {9, 10, 11, 12, 13, 32, 160, 5760, 8232, 8233, 8239, 8287, 12288, 65279}
  \/ (u >= 8192 /\ u <= 8202)

RECURSIVE trimStart(_)
trimStart(s) ==
  IF s # << >> /\ IsWhiteSpace(Head(s)) THEN trimStart(Tail(s)) ELSE s

RECURSIVE trimEnd(_)
trimEnd(s) ==
  IF s # << >> /\ IsWhiteSpace(s[Len(s)]) THEN trimEnd(SubSeq(s, 1, Len(s) - 1))
  ELSE s

trim(s) == trimEnd(trimStart(s))

\* parsed is a ghost field: parseAttributedBody was called.
TextResult(value, parsed, threw) ==
  [value |-> value, parsed |-> parsed, threw |-> threw]

fromAttributedBody(r) == TextResult(r.value, TRUE, r.threw)

\* Mutant: textColumn.trim() called without the null test (a TypeError on
\* null).
getMessageText_NoNullTest(t, b) ==
  IF t = null THEN TextResult(<< >>, FALSE, TRUE)
  ELSE IF Len(trim(t)) > 0 THEN TextResult(t, FALSE, FALSE)
  ELSE fromAttributedBody(parseAttributedBody(b))

\* Mutant: the blank test made without trim().
getMessageText_NoTrim(t, b) ==
  IF t # null /\ Len(t) > 0 THEN TextResult(t, FALSE, FALSE)
  ELSE fromAttributedBody(parseAttributedBody(b))

getMessageText(t, b) ==
  IF t # null /\ Len(t) > 0 /\ Len(trim(t)) > 0
  THEN TextResult(t, FALSE, FALSE)
  ELSE fromAttributedBody(parseAttributedBody(b))

(***************************************************************************)
(* JavaScript numbers.  A finite double is the dyadic rational             *)
(* (-1)^neg * m * 2^e whose significand m, a natural number of at most 53  *)
(* bits, is kept as its base-2^15 limbs, least significant first (TLC's    *)
(* integers are 32-bit).  Every arithmetic step of the source is one       *)
(* exact operation followed by one rounding to nearest, ties to even, as   *)
(* IEEE 754 prescribes.  The magnitudes met here stay far from overflow    *)
(* and from the subnormal range.                                           *)
(***************************************************************************)
Base == 2 ^ 15

Limb(a, i) == IF i <= Len(a) THEN a[i] ELSE 0

BigNorm(a) ==
  LET nz == { i \in DOMAIN a : a[i] # 0 }
  IN IF nz = {} THEN << >> ELSE SubSeq(a, 1, CHOOSE i \in nz : \A j \in nz : j <= i)

RECURSIVE BigOf(_)
BigOf(n) == IF n = 0 THEN << >> ELSE << n % Base >> \o BigOf(n \div Base)

RECURSIVE BigAddFrom(_, _, _, _)
BigAddFrom(a, b, i, carry) ==
  IF i > Len(a) /\ i > Len(b) THEN BigOf(carry)
  ELSE LET t == Limb(a, i) + Limb(b, i) + carry
       IN << t % Base >> \o BigAddFrom(a, b, i + 1, t \div Base)

BigAdd(a, b) == BigNorm(BigAddFrom(a, b, 1, 0))

\* a - b for a >= b.
RECURSIVE BigSubFrom(_, _, _, _)
BigSubFrom(a, b, i, borrow) ==
  IF i > Len(a) THEN << >>
  ELSE LET t == Limb(a, i) - Limb(b, i) - borrow
       IN IF t < 0 THEN << t + Base >> \o BigSubFrom(a, b, i + 1, 1)
          ELSE << t >> \o BigSubFrom(a, b, i + 1, 0)

BigSub(a, b) == BigNorm(BigSubFrom(a, b, 1, 0))

BigLess(a, b) ==
  LET d == { i \in 1 .. Max(Len(a), Len(b)) : Limb(a, i) # Limb(b, i) }
  IN d # {} /\ LET i == CHOOSE x \in d : \A y \in d : y <= x
               IN Limb(a, i) < Limb(b, i)

\* a * k for 0 <= k < Base.
RECURSIVE BigMulSmallFrom(_, _, _, _)
BigMulSmallFrom(a, k, i, carry) ==
  IF i > Len(a) THEN BigOf(carry)
  ELSE LET t == a[i] * k + carry
       IN << t % Base >> \o BigMulSmallFrom(a, k, i + 1, t \div Base)

BigMulSmall(a, k) == BigNorm(BigMulSmallFrom(a, k, 1, 0))

\* Quotient q and remainder r of a by k, 0 < k <= Base, from limb i down.
RECURSIVE BigDivSmallFrom(_, _, _, _)
BigDivSmallFrom(a, k, i, rem) ==
  IF i = 0 THEN [q |-> << >>, r |-> rem]
  ELSE LET t == rem * Base + a[i]
           rest == BigDivSmallFrom(a, k, i - 1, t % k)
       IN [q |-> rest.q \o << t \div k >>, r |-> rest.r]

BigDivSmall(a, k) ==
  LET d == BigDivSmallFrom(a, k, Len(a), 0) IN [q |-> BigNorm(d.q), r |-> d.r]

BitLen(a) ==
  IF a = << >> THEN 0
  ELSE (Len(a) - 1) * 15
         + (CHOOSE n \in 1 .. 15 : a[Len(a)] < 2 ^ n /\ a[Len(a)] >= 2 ^ (n - 1))

\* a * 2^s.
BigShl(a, s) ==
  IF a = << >> THEN << >>
  ELSE Repeat(0, s \div 15) \o BigMulSmall(a, 2 ^ (s % 15))

\* floor(a / 2^s), and whether a nonzero bit was shifted out.
BigShr(a, s) ==
  LET w == Min(s \div 15, Len(a))
      d == BigDivSmall(SubSeq(a, w + 1, Len(a)), 2 ^ (s % 15))
  IN [q |-> d.q, sticky |-> d.r # 0 \/ \E i \in 1 .. w : a[i] # 0]

\* The value of a as a TLC integer, for a below 2^31.
RECURSIVE BigInt(_)
BigInt(a) == IF a = << >> THEN 0 ELSE a[1] + Base * BigInt(Tail(a))

NaN == [isNull |-> FALSE, nan |-> TRUE, neg |-> FALSE, m |-> << >>, e |-> 0]
nullNumber == [isNull |-> TRUE, nan |-> FALSE, neg |-> FALSE, m |-> << >>, e |-> 0]
Double(neg, m, e) ==
  [isNull |-> FALSE, nan |-> FALSE, neg |-> neg /\ m # << >>, m |-> m, e |-> IF m = << >> THEN 0 ELSE e]

\* Round m * 2^e, or a value strictly between it and (m + 1) * 2^e when
\* inexact holds, to the nearest double, ties to even.  An inexact m is at
\* least 55 bits long.
RoundToDouble(neg, m, inexact, e) ==
  LET n == BitLen(m)
  IN IF n <= 53 THEN Double(neg, m, e)
     ELSE LET r == n - 53
              g == BigShr(m, r - 1)
              h == BigShr(g.q, 1)
              up == h.sticky /\ (inexact \/ g.sticky \/ Limb(h.q, 1) % 2 = 1)
          IN Double(neg, IF up THEN BigAdd(h.q, << 1 >>) ELSE h.q, e + r)

\* The exact product of a by the whole number whose factors are ks, and its
\* exact quotient by that number (each factor below Base).
RECURSIVE BigMulAll(_, _)
BigMulAll(a, ks) ==
  IF ks = << >> THEN a ELSE BigMulAll(BigMulSmall(a, Head(ks)), Tail(ks))

RECURSIVE BigDivAll(_, _)
BigDivAll(a, ks) ==
  IF ks = << >> THEN [q |-> a, inexact |-> FALSE]
  ELSE LET d == BigDivSmall(a, Head(ks))
           rest == BigDivAll(d.q, Tail(ks))
       IN [q |-> rest.q, inexact |-> d.r # 0 \/ rest.inexact]

\* x * k and x / k in double arithmetic, k the whole number of factors ks.
Times(x, ks) ==
  IF x.nan THEN NaN ELSE RoundToDouble(x.neg, BigMulAll(x.m, ks), FALSE, x.e)

Over(x, ks) ==
  IF x.nan THEN NaN
  ELSE LET s == 100 - BitLen(x.m)   \* the quotient keeps 70 bits or more
           d == BigDivAll(BigShl(x.m, s), ks)
       IN RoundToDouble(x.neg, d.q, d.inexact, x.e - s)

\* x + c and x - c in double arithmetic, c a whole number below 2^31; the
\* exponents of the values met here are at most 0.
PlusSigned(x, cneg, c) ==
  IF x.nan THEN NaN
  ELSE LET e == Min(x.e, 0)
           a == BigShl(x.m, x.e - e)
           b == BigShl(BigOf(c), 0 - e)
       IN IF x.neg = cneg THEN RoundToDouble(cneg, BigAdd(a, b), FALSE, e)
          ELSE IF BigLess(a, b) THEN RoundToDouble(cneg, BigSub(b, a), FALSE, e)
          ELSE RoundToDouble(x.neg, BigSub(a, b), FALSE, e)

Plus(x, c) == PlusSigned(x, FALSE, c)
Minus(x, c) == PlusSigned(x, TRUE, c)

(***************************************************************************)
(* Timestamps (database.ts 11-35).  An archive timestamp is a count of     *)
(* nanoseconds since 2001-01-01: in the message table a 64-bit integer,    *)
(* kept as whole seconds and the nanoseconds within the second (nullNanos  *)
(* for NULL), and in the program the JavaScript number the driver reads it *)
(* as.  An ISO-8601 string is the instant it denotes, in whole Unix        *)
(* seconds and milliseconds.                                               *)
(***************************************************************************)
MACOS_EPOCH_OFFSET == 978307200
\* 1e9, by its factors.
NANOSECONDS_PER_SECOND == << 1000, 1000, 1000 >>

Nanos(sec, nano) == [isNull |-> FALSE, sec |-> sec, nano |-> nano]
nullNanos == [isNull |-> TRUE, sec |-> 0, nano |-> 0]

\* A value of type string | undefined, or the RangeError raised instead of
\* it; notADate is a string that new Date() cannot parse.
IsoDate(sec, ms) == [defined |-> TRUE, kind |-> "iso", sec |-> sec, ms |-> ms]
undefinedDate == [defined |-> FALSE, kind |-> "undefined", sec |-> 0, ms |-> 0]
notADate == [defined |-> TRUE, kind |-> "text", sec |-> 0, ms |-> 0]
RangeError == [defined |-> FALSE, kind |-> "RangeError", sec |-> 0, ms |-> 0]

\* new Date(isoString).getTime(): the milliseconds since 1970, or NaN.
getTime(isoString) ==
  IF isoString.kind # "iso" THEN NaN
  ELSE Double(FALSE, BigAdd(BigMulSmall(BigOf(isoString.sec), 1000),
                            BigOf(isoString.ms)), 0)

\* new Date(value).toISOString(): the time value is truncated toward zero
\* (TimeClip); an invalid Date raises a RangeError.  Instants from 1970 on.
toISOString(value) ==
  IF value.nan THEN RangeError
  ELSE LET whole == IF value.e >= 0 THEN BigShl(value.m, value.e)
                    ELSE BigShr(value.m, 0 - value.e).q
           d == BigDivSmall(whole, 1000)
       IN IsoDate(BigInt(d.q), d.r)

\* The number the driver returns for an INTEGER column: the nearest double.
columnNumber(d) ==
  IF d.isNull THEN nullNumber
  ELSE RoundToDouble(FALSE, BigAdd(BigMulAll(BigOf(d.sec), NANOSECONDS_PER_SECOND),
                                   BigOf(d.nano)), FALSE, 0)

macosTimestampToISO(nanoseconds) ==
  IF nanoseconds.isNull \/ (~nanoseconds.nan /\ nanoseconds.m = << >>)
  THEN undefinedDate
  ELSE LET unixSeconds == Plus(Over(nanoseconds, NANOSECONDS_PER_SECOND),
                               MACOS_EPOCH_OFFSET)
       IN toISOString(Times(unixSeconds, << 1000 >>))

isoToMacosTimestamp(isoString) ==
  LET unixSeconds == Over(getTime(isoString), << 1000 >>)
  IN Times(Minus(unixSeconds, MACOS_EPOCH_OFFSET), NANOSECONDS_PER_SECOND)

(***************************************************************************)
(* Row mappers of MessagesService.                                         *)
(***************************************************************************)
\* The handle table read by getHandleIdentifier: ROWID -> id.
HandleRows == [h \in {1, 2} |-> IF h = 1 THEN "+15550100" ELSE "a@example.com"]

\* getHandleIdentifier: undefined for a zero handle id or a missing row.
getHandleIdentifier(handleId) ==
  IF handleId = 0 THEN "undefined"
  ELSE IF handleId \in DOMAIN HandleRows THEN HandleRows[handleId]
  ELSE "undefined"

\* macosTimestampToISO(row.date) || new Date().toISOString()
orNow(iso, clock) == IF iso.defined THEN iso ELSE clock

\* String(n) of a non-negative integer: its decimal digits as code units.
RECURSIVE StringOf(_)
StringOf(n) ==
  IF n < 10 THEN << 48 + n >> ELSE StringOf(n \div 10) \o << 48 + (n % 10) >>

\* rowToMessage (part_008 715-729); clock is the instant new Date() reads.
rowToMessage(r, clock) ==
  [id |-> StringOf(r.ROWID),
   guid |-> r.guid,
   text |-> getMessageText(r.text, r.attributedBody).value,
   date |-> orNow(macosTimestampToISO(columnNumber(r.date)), clock),
   isFromMe |-> r.is_from_me = 1,
   chatId |-> IF r.chat_id # 0 THEN StringOf(r.chat_id) ELSE << >>,
   senderHandle |-> IF r.is_from_me = 0
                    THEN getHandleIdentifier(r.handle_id) ELSE "undefined",
   hasAttachments |-> r.cache_has_attachments = 1]

\* text || undefined, undefined written as null.
orUndefined(text) == IF text = << >> THEN null ELSE text

\* getLastMessageForChat (part_008 690-713), from the row its query fetched
\* (exists is FALSE when the query found no row, and the result is null).
lastMessageOf(r) ==
  IF ~r.exists THEN [isNull |-> TRUE, date |-> undefinedDate, text |-> null]
  ELSE [isNull |-> FALSE,
        date |-> macosTimestampToISO(columnNumber(r.date)),
        text |-> orUndefined(getMessageText(r.text, r.attributedBody).value)]

\* What listChats / getChat copy into the chat record: lastMessage?.date and
\* lastMessage?.text.
optionalFields(lastMessage) ==
  [lastMessageDate |-> IF lastMessage.isNull THEN undefinedDate
                       ELSE lastMessage.date,
   lastMessageText |-> IF lastMessage.isNull THEN null ELSE lastMessage.text]

chatLastMessage(r) == optionalFields(lastMessageOf(r))

(***************************************************************************)
(* Inputs.                                                                 *)
(***************************************************************************)
NoFrame == [kind |-> "raw", marker |-> << >>, enc |-> "none", text |-> << >>,
            pad |-> 0]
NoRow == [exists |-> FALSE, ROWID |-> 0, guid |-> "", text |-> null,
          attributedBody |-> null, date |-> nullNanos, is_from_me |-> 0, handle_id |-> 0, cache_has_attachments |-> 0,
          chat_id |-> 0]
NoRet == [none |-> TRUE]
NoArgs == [none |-> TRUE]
NoDb == [none |-> TRUE]
NoCli == [none |-> TRUE]
NoConn == [none |-> TRUE]

(***************************************************************************)
(* MessagesService queries (part_008 277-545).  The archive db holds the   *)
(* tables as sets of rows; a NULL integer column is 0 (no ROWID is 0) and  *)
(* a NULL timestamp is nullNanos.  An optional argument is Given(v) or     *)
(* Absent(d); a call ends with the value it returns or with the error it   *)
(* throws.                                                                 *)
(***************************************************************************)
Given(v) == [given |-> TRUE, v |-> v]
Absent(d) == [given |-> FALSE, v |-> d]

Returned(v) == [threw |-> FALSE, undefined |-> FALSE, value |-> v]
ReturnedUndefined == [threw |-> FALSE, undefined |-> TRUE, value |-> << >>]
Thrown == [threw |-> TRUE, undefined |-> FALSE, value |-> << >>]

\* parseInt(s, 10): leading white space and one sign are skipped, the
\* longest run of decimal digits is read and the rest is ignored; NaN when
\* there is no digit.
IsDigit(c) == c >= 48 /\ c <= 57

RECURSIVE DecimalValue(_)
DecimalValue(ds) ==
  IF ds = << >> THEN 0
  ELSE 10 * DecimalValue(SubSeq(ds, 1, Len(ds) - 1)) + (ds[Len(ds)] - 48)

parseInt(s) ==
  LET t == trimStart(s)
      signed == t # << >> /\ t[1] \in {43, 45}
      u == IF signed THEN Tail(t) ELSE t
      n == CHOOSE k \in 0 .. Len(u) :
             /\ \A i \in 1 .. k : IsDigit(u[i])
             /\ k = Len(u) \/ ~IsDigit(u[k + 1])
      v == DecimalValue(SubSeq(u, 1, n))
  IN IF n = 0 THEN [nan |-> TRUE, n |-> 0]
     ELSE [nan |-> FALSE, n |-> IF signed /\ t[1] = 45 THEN 0 - v ELSE v]

\* column = ? for an integer column and a bound whole number: NaN is bound
\* as NULL, and a comparison with NULL selects no row.
EqualsParam_NullMatches(column, p) == p.nan \/ column = p.n

EqualsParam(column, p) == ~p.nan /\ column # 0 /\ column = p.n

\* m.date < ? and m.date > ? for a bound double: SQLite compares the
\* integer with the real number exactly; NaN is bound as NULL.
DateCompare(d, x) ==
  IF d.isNull \/ x.nan THEN "null"
  ELSE LET a == BigAdd(BigMulAll(BigOf(d.sec), NANOSECONDS_PER_SECOND), BigOf(d.nano))
           l == IF x.e >= 0 THEN a ELSE BigShl(a, 0 - x.e)
           r == IF x.e >= 0 THEN BigShl(x.m, x.e) ELSE x.m
       IN IF x.neg THEN "greater"
          ELSE IF BigLess(l, r) THEN "less"
          ELSE IF BigLess(r, l) THEN "greater" ELSE "equal"

\* ORDER BY m.date DESC: NULL sorts last, and rows of equal date come in
\* any order.
DateBefore(a, b) ==
  /\ ~b.isNull
  /\ a.isNull \/ a.sec < b.sec \/ (a.sec = b.sec /\ a.nano < b.nano)

OrderByDateDesc(rows) ==
  { s \in [1 .. Cardinality(rows) -> rows] :
      /\ \A i, j \in DOMAIN s : i < j => s[i] # s[j] /\ ~DateBefore(s[i].date, s[j].date) }

\* LIMIT n: a negative n is no limit at all.
Limit(s, n) == IF n < 0 THEN s ELSE SubSeq(s, 1, Min(n, Len(s)))

\* FROM message m LEFT JOIN chat_message_join cmj ON cmj.message_id = m.ROWID
MessageJoin(d) ==
  { [p[1] EXCEPT !.chat_id = p[2][1]] :
      p \in { p \in d.message \X d.chat_message_join : p[2][2] = p[1].ROWID } }
    \cup { m \in d.message : \A j \in d.chat_message_join : j[2] # m.ROWID }

\* The rows a message query may return: WHERE, ORDER BY m.date DESC, LIMIT.
SelectMessages(rows, limit) == { Limit(s, limit) : s \in OrderByDateDesc(rows) }

MessageQuery(d, Where(_), limit) ==
  SelectMessages({ r \in MessageJoin(d) : Where(r) }, limit)

DefaultLimit == 50
orDefault(limit) == IF limit.given THEN limit.v ELSE DefaultLimit

\* A string option that is supplied and not empty.
Truthy(option) == option.given /\ option.v # << >>

\* listMessages (part_008 347-401): the WHERE clause built from the options.
listMessagesWhere(options, r) ==
  /\ Truthy(options.chatId) => EqualsParam(r.chat_id, parseInt(options.chatId.v))
  /\ options.beforeDate.given =>
       DateCompare(r.date, isoToMacosTimestamp(options.beforeDate.v)) = "less"
  /\ options.afterDate.given =>
       DateCompare(r.date, isoToMacosTimestamp(options.afterDate.v)) = "greater"
  /\ options.fromMe.given => r.is_from_me = (IF options.fromMe.v THEN 1 ELSE 0)

mapRows(rows, clock) == [i \in DOMAIN rows |-> rowToMessage(rows[i], clock)]

\* The values listMessages may return.
listMessages(d, options, clock) ==
  LET Where(r) == listMessagesWhere(options, r)
  IN { Returned(mapRows(rows, clock)) :
         rows \in MessageQuery(d, Where, orDefault(options.limit)) }

\* text LIKE pattern: % matches any run of characters, _ any one character,
\* ASCII letters match without regard to case; a NULL text matches nothing.
FoldCase(c) == IF c >= 97 /\ c <= 122 THEN c - 32 ELSE c

RECURSIVE LikeFrom(_, _)
LikeFrom(t, p) ==
  IF p = << >> THEN t = << >>
  ELSE IF p[1] = 37
    THEN \E k \in 0 .. Len(t) : LikeFrom(SubSeq(t, k + 1, Len(t)), Tail(p))
  ELSE /\ t # << >>
       /\ p[1] = 95 \/ FoldCase(p[1]) = FoldCase(t[1])
       /\ LikeFrom(Tail(t), Tail(p))

Like(text, pattern) == text # null /\ LikeFrom(text, pattern)

\* searchMessagesSchema (part_008 1050-1054) keeps query, chatId and limit of
\* the tool call's parameters and drops every other key; searchMessages
\* (434-472) filters on the text column and, if supplied, on the chat.
searchMessagesWhere(options, r) ==
  /\ Like(r.text, << 37 >> \o options.query \o << 37 >>)
  /\ Truthy(options.chatId) => EqualsParam(r.chat_id, parseInt(options.chatId.v))

searchMessages(d, options, clock) ==
  LET Where(r) == searchMessagesWhere(options, r)
  IN { Returned(mapRows(rows, clock)) :
         rows \in MessageQuery(d, Where, orDefault(options.limit)) }

\* getMessage (406-429).
getMessage(d, id, clock) ==
  LET found == { r \in MessageJoin(d) : EqualsParam(r.ROWID, parseInt(id)) }
  IN IF found = {} THEN { ReturnedUndefined }
     ELSE { Returned(rowToMessage(r, clock)) : r \in found }

\* getChatParticipants (672-688); the query names no order, and the handles
\* are kept as a set.
getChatParticipants(d, chatRowId) ==
  { [id |-> StringOf(h), identifier |-> HandleRows[h], service |-> "iMessage"] :
      h \in { j[2] : j \in { j \in d.chat_handle_join : j[1] = chatRowId } } }

\* The row getLastMessageForChat (690-713) fetches: a message of the chat of
\* the latest date, if the chat has one.
lastMessageRows(d, chatRowId) ==
  LET ms == { r \in MessageJoin(d) : r.chat_id = chatRowId }
      latest == { r \in ms : \A o \in ms : ~DateBefore(r.date, o.date) }
  IN IF ms = {} THEN { NoRow } ELSE latest

\* The chat record built by listChats and getChat (296-311, 329-341).
rowToChat_NotIndividual(d, c, last) ==
  [id |-> StringOf(c.ROWID), guid |-> c.guid, chatIdentifier |-> c.chat_identifier,
   displayName |-> IF c.display_name = "" THEN "undefined" ELSE c.display_name,
   isGroup |-> c.style # 45,
   participants |-> getChatParticipants(d, c.ROWID),
   lastMessageDate |-> chatLastMessage(last).lastMessageDate,
   lastMessageText |-> chatLastMessage(last).lastMessageText]

rowToChat(d, c, last) ==
  LET lastMessage == chatLastMessage(last) IN
  [id |-> StringOf(c.ROWID),
   guid |-> c.guid,
   chatIdentifier |-> c.chat_identifier,
   displayName |-> IF c.display_name = "" THEN "undefined" ELSE c.display_name,
   isGroup |-> c.style = 43,
   participants |-> getChatParticipants(d, c.ROWID),
   lastMessageDate |-> lastMessage.lastMessageDate,
   lastMessageText |-> lastMessage.lastMessageText]

\* getChat (317-342).
getChat(d, id) ==
  LET found == { c \in d.chat : EqualsParam(c.ROWID, parseInt(id)) }
  IN IF found = {} THEN { ReturnedUndefined }
     ELSE UNION { { Returned(rowToChat(d, c, last)) : last \in lastMessageRows(d, c.ROWID) } :
                  c \in found }

\* listChats (277-312): GROUP BY c.ROWID ORDER BY MAX(m.date) DESC LIMIT ?.
maxDate(d, c) ==
  LET last == CHOOSE r \in lastMessageRows(d, c.ROWID) : TRUE
  IN IF last.exists THEN last.date ELSE nullNanos

listChats(d, options) ==
  { Returned([i \in DOMAIN rows |->
                rowToChat(d, rows[i].c, CHOOSE r \in lastMessageRows(d, rows[i].c.ROWID) : TRUE)]) :
      rows \in { Limit(s, orDefault(options.limit)) :
                 s \in OrderByDateDesc({ [c |-> c, date |-> maxDate(d, c)] : c \in d.chat }) } }

\* rowToAttachment (739-749); a NULL or empty column is "".
rowToAttachment(a) ==
  [id |-> StringOf(a.ROWID),
   guid |-> a.guid,
   filename |-> a.filename,
   mimeType |-> IF a.mime_type = "" THEN "undefined" ELSE a.mime_type,
   transferName |-> IF a.transfer_name = "" THEN "undefined" ELSE a.transfer_name,
   totalBytes |-> IF a.total_bytes = 0 THEN Absent(0) ELSE Given(a.total_bytes),
   messageId |-> IF a.message_id # 0 THEN StringOf(a.message_id) ELSE << >>]

\* FROM attachment a [LEFT] JOIN message_attachment_join maj
AttachmentJoin(d, left) ==
  { [p[1] EXCEPT !.message_id = p[2][1]] :
      p \in { p \in d.attachment \X d.message_attachment_join : p[2][2] = p[1].ROWID } }
    \cup { a \in d.attachment :
             left /\ \A j \in d.message_attachment_join : j[2] # a.ROWID }

\* getAttachment (524-545).
getAttachment(d, id) ==
  LET found == { a \in AttachmentJoin(d, TRUE) : EqualsParam(a.ROWID, parseInt(id)) }
  IN IF found = {} THEN { ReturnedUndefined }
     ELSE { Returned(rowToAttachment(a)) : a \in found }

\* listAttachments (477-519): the attachments of the messages selected,
\* ordered by the date of the message.
listAttachments(d, options) ==
  LET joined == { [a |-> p[1], date |-> p[2].date] :
                    p \in { p \in AttachmentJoin(d, FALSE) \X MessageJoin(d) :
                             /\ p[2].ROWID = p[1].message_id
                             /\ Truthy(options.messageId) =>
                                  EqualsParam(p[1].message_id, parseInt(options.messageId.v))
                             /\ Truthy(options.chatId) =>
                                  EqualsParam(p[2].chat_id, parseInt(options.chatId.v)) } }
  IN { Returned([i \in DOMAIN rows |-> rowToAttachment(rows[i].a)]) :
         rows \in { Limit(s, orDefault(options.limit)) : s \in OrderByDateDesc(joined) } }

\* Bytes handed to the length decoder.
DecodeBytes == {0, 44, 127, 128, 129, 130, 255}
DecodeBlobs == SeqsUpTo(DecodeBytes, MaxDecodeLen)

\* Pieces an arbitrary blob is assembled from.
U16Two == <<129, 2, 0>>
Chunks ==
  { <<0>>, <<2>>, <<129>>, U16Two,
    <<97, 98>>, <<120, 121>>, <<195, 169>>, <<1, 43, 2>>,
    nsStringMarker, nsMutableMarker, streamHeader,
    nsStringMarker \o U16Two \o <<99, 100>>,
    nsMutableMarker \o U16Two \o <<101, 102>> }

ChunkBlobs(n) == { Flatten(cs) : cs \in SeqsUpTo(Chunks, n) }
RawBlobs == ChunkBlobs(MaxChunks)

\* Characters of a framed text: A N S space LF e-acute and U+1F600.
FrameChars ==
  { <<65>>, <<78>>, <<83>>, <<32>>, <<10>>, <<233>>, <<55357, 56832>>, <<55357>> }
ShortTexts == { Flatten(cs) : cs \in SeqsUpTo(FrameChars, MaxTextLen) } \ { << >> }
LongTexts ==
  { Flatten(Repeat(c, n)) : c \in FrameChars, n \in {16, 32} }
    \cup { Repeat(233, 65), Repeat(233, 66), Repeat(65, 255), Repeat(65, 300) }
\* A text that itself holds the bytes of a marker and a length prefix.
MarkerTexts == { nsStringMarker \o <<33>> \o Repeat(65, 33) }
FrameTexts == ShortTexts \cup LongTexts \cup MarkerTexts

\* The length prefix of L under an encoding.
LengthPrefix(enc, L) ==
  IF enc = "u8" THEN << L >>
  ELSE IF enc = "u16" THEN << 129, L % 256, L \div 256 >>
  ELSE << 130, L % 256, (L \div 256) % 256, (L \div 65536) % 256, L \div 16777216 >>

\* padding + marker + padding + prefix + text + padding, as the tests build it.
FramedBlob(f) ==
  LET bytes == BufferFrom(f.text)
      padding == Repeat(0, f.pad)
  IN  padding \o f.marker \o padding \o LengthPrefix(f.enc, Len(bytes))
      \o bytes \o padding

\* A single byte holds a length up to 255 only.
Fits(e, t) == e = "u8" => Len(BufferFrom(t)) <= 255
Frames ==
  { f \in [kind : {"framed"}, marker : {nsStringMarker, nsMutableMarker},
           enc : {"u8", "u16", "u32"}, text : FrameTexts, pad : 0 .. MaxPad] :
      Fits(f.enc, f.text) }

TextColumns ==
  { null, << >>, <<32>>, <<9, 10>>, <<160, 32>>, <<72, 105>>, <<32, 72, 32>>,
    <<8203>> }

\* Strings handed to the classifier: NUL, A, LF, e-acute, U+1F600.
ClassifyChars == { <<0>>, <<65>>, <<10>>, <<233>>, <<55357, 56832>> }
ClassifyStrings == { Flatten(cs) : cs \in SeqsUpTo(ClassifyChars, MaxStrLen) }

RowDates == { nullNanos, Nanos(0, 0), Nanos(0, 1000000), Nanos(1, 0),
              Nanos(721692800, 123000000) }
Clocks == { IsoDate(1700000000, 0), IsoDate(1700000001, 500) }
RowBlobs == { null, <<97, 98>>, nsStringMarker \o U16Two \o <<99, 100>> }
Rows ==
  { [exists |-> TRUE, ROWID |-> 17, guid |-> "guid-17", text |-> t,
     attributedBody |-> b, date |-> d, is_from_me |-> me, handle_id |-> h,
     cache_has_attachments |-> 0, chat_id |-> c] :
      t \in {null, <<72, 105>>}, b \in RowBlobs, d \in RowDates,
      me \in {0, 1}, h \in 0 .. MaxHandle, c \in {0, 3} }

(***************************************************************************)
(* The connection (database.ts 51-95).  conn.dbInstance is the cached      *)
(* handle, 0 for null; handles are numbered in the order they are opened   *)
(* and conn.modes[h] is the mode handle h was opened in; conn.closed holds *)
(* the handles close() was called on.  conn.exists tells whether the store *)
(* file is there and conn.openError is the message of the error            *)
(* new Database() raises, << >> when it raises none.  An error is its      *)
(* message, a sequence of pieces of text.                                  *)
(***************************************************************************)
NotFoundError ==
  << "Messages database not found at ", "~/Library/Messages/chat.db", ". ",
     "Ensure Messages.app has been used on this Mac." >>

AccessDeniedError ==
  << "Cannot open Messages database. Full Disk Access is required.",
     "Please grant Full Disk Access to this application in:",
     "System Settings > Privacy & Security > Full Disk Access" >>

Opened(c, h) == [conn |-> c, threw |-> FALSE, error |-> << >>, handle |-> h]
OpenFailed(c, error) == [conn |-> c, threw |-> TRUE, error |-> error, handle |-> 0]

\* new Database(dbPath, { readonly: true }) when it succeeds: the next handle.
newDatabase(c, mode) ==
  Opened([c EXCEPT !.dbInstance = Len(c.modes) + 1, !.modes = Append(@, mode)],
         Len(c.modes) + 1)

getDatabase_NoCache(c) ==
  IF ~c.exists THEN OpenFailed(c, NotFoundError)
  ELSE IF c.openError = << >> THEN newDatabase(c, "readonly")
  ELSE IF includes(c.openError, << "SQLITE_CANTOPEN" >>)
    THEN OpenFailed(c, AccessDeniedError)
  ELSE OpenFailed(c, c.openError)

getDatabase_ReadWrite(c) ==
  IF c.dbInstance # 0 THEN Opened(c, c.dbInstance)
  ELSE IF ~c.exists THEN OpenFailed(c, NotFoundError)
  ELSE IF c.openError = << >> THEN newDatabase(c, "readwrite")
  ELSE IF includes(c.openError, << "SQLITE_CANTOPEN" >>)
    THEN OpenFailed(c, AccessDeniedError)
  ELSE OpenFailed(c, c.openError)

getDatabase_CachesFailed(c) ==
  IF c.dbInstance # 0 THEN Opened(c, c.dbInstance)
  ELSE IF ~c.exists THEN OpenFailed(c, NotFoundError)
  ELSE IF c.openError = << >> THEN newDatabase(c, "readonly")
  ELSE OpenFailed(newDatabase(c, "readonly").conn,
                  IF includes(c.openError, << "SQLITE_CANTOPEN" >>)
                    THEN AccessDeniedError ELSE c.openError)

getDatabase(c) ==
  IF c.dbInstance # 0 THEN Opened(c, c.dbInstance)
  ELSE IF ~c.exists THEN OpenFailed(c, NotFoundError)
  ELSE IF c.openError = << >> THEN newDatabase(c, "readonly")
  ELSE IF includes(c.openError, << "SQLITE_CANTOPEN" >>)
    THEN OpenFailed(c, AccessDeniedError)
  ELSE OpenFailed(c, c.openError)

closeDatabase(c) ==
  IF c.dbInstance # 0
    THEN [c EXCEPT !.closed = @ \cup {c.dbInstance}, !.dbInstance = 0]
  ELSE c

\* wrapDatabaseError and the query helpers (part_008 207-235): conn.queryError
\* is the message of the error prepare() or all()/get() raises, << >> when
\* the statement runs.
FULL_DISK_ACCESS_ERROR ==
  << "Cannot open Messages database. Full Disk Access is required.",
     "Please grant Full Disk Access in:",
     "System Settings > Privacy & Security > Full Disk Access" >>

wrapDatabaseError_Always(error) == FULL_DISK_ACCESS_ERROR

wrapDatabaseError(error) ==
  IF includes(error, << "SQLITE_CANTOPEN" >>) THEN FULL_DISK_ACCESS_ERROR ELSE error

Failed(error) == [threw |-> TRUE, undefined |-> FALSE, value |-> << >>, error |-> error]

executeQuery(c) ==
  LET opened == getDatabase(c)
  IN [conn |-> opened.conn,
      handle |-> opened.handle,
      threw |-> opened.threw \/ c.queryError # << >>,
      error |-> IF opened.threw THEN wrapDatabaseError(opened.error)
                ELSE IF c.queryError # << >> THEN wrapDatabaseError(c.queryError)
                ELSE << >>]

\* The statements an operation prepares (part_008 280-293, 318-322, 380-392,
\* 407-420, 451-463, 500-510, 525-537): its own, then those of
\* getChatParticipants (673-679) and getLastMessageForChat (691-705) for a
\* chat, that of getHandleIdentifier (731-735) for a message.
statementsOf(o) ==
  IF o \in {"listChats", "getChat"} THEN << "SELECT", "SELECT", "SELECT" >>
  ELSE IF o \in {"listMessages", "getMessage", "searchMessages"}
    THEN << "SELECT", "SELECT" >>
  ELSE << "SELECT" >>

\* What running the statements on a handle leaves of the archive: a SELECT
\* writes nothing, and SQLite refuses every write on a read-only handle.
afterStatements(d, mode, statements) ==
  IF mode = "readonly" \/ \A i \in DOMAIN statements : statements[i] = "SELECT"
    THEN d
  ELSE [d EXCEPT !.message = {}, !.chat_message_join = {}]

(***************************************************************************)
(* Contact resolution (part_002 145-193, part_008 551-574).  cli is what   *)
(* running the executable yields: whether execFile succeeded, and its      *)
(* standard output, which is empty, no JSON, a success envelope with the   *)
(* contacts or an error envelope with a message.                           *)
(***************************************************************************)
Resolved(contacts) == [threw |-> FALSE, error |-> "", contacts |-> contacts]
Raised(error) == [threw |-> TRUE, error |-> error, contacts |-> << >>]

\* parseCliOutput (part_002 145-163).
parseCliOutput_NoSuccess(output) ==
  IF output.kind = "garbage" THEN Raised("Invalid CLI output") ELSE Raised("Error")

parseCliOutput_ErrorAsNone(output) ==
  IF output.kind = "success" THEN Resolved(output.contacts) ELSE Resolved(<< >>)

parseCliOutput(output) ==
  IF output.kind = "garbage" THEN Raised("Invalid CLI output")
  ELSE IF output.kind = "success" THEN Resolved(output.contacts)
  ELSE IF output.permission THEN Raised("CliPermissionError")
  ELSE Raised("Error")

\* runCli (part_002 165-183): an error raised inside the try block, the
\* parser's included, is caught and raised again as a plain Error.
runCli(run) ==
  IF run.stdout.kind = "empty" THEN Raised("Error")
  ELSE LET parsed == parseCliOutput(run.stdout)
       IN IF run.exec = "ok" /\ parsed.threw THEN Raised("Error") ELSE parsed

\* resolveContact (part_008 551-574) for a name.
resolveContact_Unchecked(name, run) ==
  IF run.stdout.kind = "success" /\ run.stdout.contacts # << >>
    THEN Resolved(run.stdout.contacts)
  ELSE Resolved(<< [fullName |-> "Dave", phoneNumbers |-> << "+15550100" >>,
                     emailAddresses |-> << >>] >>)

resolveContact(name, run) ==
  IF name = "" THEN Raised("Must provide name, phone, or email")
  ELSE runCli(run)

(***************************************************************************)
(* sendMessage (part_008 583-664).  A recipient, a message text, a phone   *)
(* number and an email are strings of code units; an error text is a       *)
(* sequence of pieces.  The result comes with the scripts handed to        *)
(* runAppleScript, each by the recipient and the text written into it.     *)
(***************************************************************************)
\* /^[+]?\d[\d\s\-().]+$/.test(str) || /@/.test(str)  (part_008 751-758)
isPhoneOrEmail(s) ==
  LET t == IF s # << >> /\ s[1] = 43 THEN Tail(s) ELSE s
  IN \/ /\ Len(t) >= 2
        /\ IsDigit(t[1])
        /\ \A i \in 2 .. Len(t) :
             IsDigit(t[i]) \/ IsWhiteSpace(t[i]) \/ t[i] \in {45, 40, 41, 46}
     \/ \E i \in DOMAIN s : s[i] = 64

\* str.replace(/\\/g, '\\\\').replace(/"/g, '\\"')  (applescript.ts 72-74)
escapeForAppleScript(s) ==
  Flatten([i \in DOMAIN s |-> IF s[i] \in {92, 34} THEN << 92, s[i] >> ELSE << s[i] >>])

Refused(recipient, error) ==
  [result |-> [success |-> FALSE, recipient |-> recipient, error |-> error],
   scripts |-> << >>]

\* The script is run and its outcome mapped (part_008 631-663).
send(target, text, osascript) ==
  [result |->
     IF osascript.success
       THEN [success |-> TRUE, recipient |-> target, error |-> << >>]
     ELSE [success |-> FALSE, recipient |-> target,
           error |-> IF includes(osascript.error, << "participant" >>)
                       THEN << "Cannot find conversation with ", "target", ". ",
                               "Make sure you have an existing conversation with this recipient." >>
                     ELSE IF includes(osascript.error, << "Automation" >>)
                       THEN << "Automation permission required." >>
                     ELSE IF osascript.error = << >> THEN << "Unknown error" >>
                     ELSE osascript.error],
   scripts |-> << [recipient |-> escapeForAppleScript(target),
                   text |-> escapeForAppleScript(text)] >>]

sendMessage_FirstOfMany(options, run) ==
  LET resolved == resolveContact(IF options.recipient = << >> THEN "" ELSE "name", run)
      first == resolved.contacts[1]
  IN IF isPhoneOrEmail(options.recipient) \/ resolved.threw
       THEN send(options.recipient, options.text, run.osascript)
     ELSE IF Len(resolved.contacts) = 0
       THEN Refused(options.recipient, << "No contact found with name" >>)
     ELSE IF first.phoneNumbers # << >>
       THEN send(first.phoneNumbers[1], options.text, run.osascript)
     ELSE IF first.emailAddresses # << >>
       THEN send(first.emailAddresses[1], options.text, run.osascript)
     ELSE Refused(options.recipient, << "Contact has no phone numbers or email addresses" >>)

sendMessage(options, run) ==
  LET resolved == resolveContact(IF options.recipient = << >> THEN "" ELSE "name", run)
      first == resolved.contacts[1]
  IN IF isPhoneOrEmail(options.recipient) \/ resolved.threw
       THEN send(options.recipient, options.text, run.osascript)
     ELSE IF Len(resolved.contacts) = 0
       THEN Refused(options.recipient, << "No contact found with name" >>)
     ELSE IF Len(resolved.contacts) > 1
       THEN Refused(options.recipient,
                    << "Multiple contacts found. Please specify the phone number directly:" >>)
     ELSE IF first.phoneNumbers # << >>
       THEN send(first.phoneNumbers[1], options.text, run.osascript)
     ELSE IF first.emailAddresses # << >>
       THEN send(first.emailAddresses[1], options.text, run.osascript)
     ELSE Refused(options.recipient, << "Contact has no phone numbers or email addresses" >>)

(***************************************************************************)
(* Contact-driven filtering of listMessages and searchMessages, steps 1-6. *)
(* A result also tells which queries ran.                                  *)
(***************************************************************************)
Traced(result, queries) ==
  [threw |-> result.threw, undefined |-> result.undefined, value |-> result.value,
   queries |-> queries]

\* Every phone number and every email of all the contacts.
identifiersOf(contacts) ==
  UNION { { contacts[i].phoneNumbers[k] : k \in DOMAIN contacts[i].phoneNumbers }
            \cup { contacts[i].emailAddresses[k] : k \in DOMAIN contacts[i].emailAddresses } :
          i \in DOMAIN contacts }

\* The chats with a participant handle among the identifiers.
getChatIdsByIdentifiers(d, identifiers) ==
  { j[1] : j \in { j \in d.chat_handle_join : HandleRows[j[2]] \in identifiers } }

\* selected: the joined message rows that pass the other filters.
contactFilter(d, options, clock, run, selected) ==
  LET resolved == resolveContact(options.contact.v, run)
      chatIds == getChatIdsByIdentifiers(d, identifiersOf(resolved.contacts))
  IN IF resolved.threw THEN { Traced(Thrown, << "resolve" >>) }
     ELSE IF resolved.contacts = << >> THEN { Traced(Returned(<< >>), << "resolve" >>) }
     ELSE IF chatIds = {} THEN { Traced(Returned(<< >>), << "resolve", "chatIds" >>) }
     ELSE { Traced(Returned(mapRows(rows, clock)), << "resolve", "chatIds", "messages" >>) :
              rows \in SelectMessages({ r \in selected : r.chat_id \in chatIds },
                                      orDefault(options.limit)) }

listMessagesForContact(d, options, clock, run) ==
  contactFilter(d, options, clock, run,
                { r \in MessageJoin(d) : listMessagesWhere(options, r) })

searchMessagesForContact(d, options, clock, run) ==
  contactFilter(d, options, clock, run,
                { r \in MessageJoin(d) : searchMessagesWhere(options, r) })

\* The archive: two chats, four messages (one of them with its text only in
\* the blob, one with the sentinel date 0, two of equal date), two
\* attachments.
ChatTable ==
  { [ROWID |-> 3, guid |-> "chat-3", chat_identifier |-> "+15550100",
     display_name |-> "", style |-> 45],
    [ROWID |-> 7, guid |-> "chat-7", chat_identifier |-> "chat7",
     display_name |-> "Team", style |-> 43] }

MessageRowOf(id, text, body, date, me, handle) ==
  [exists |-> TRUE, ROWID |-> id, guid |-> "guid", text |-> text,
   attributedBody |-> body, date |-> date, is_from_me |-> me, handle_id |-> handle,
   cache_has_attachments |-> 0, chat_id |-> 0]

MessageTable ==
  { MessageRowOf(1, << 72, 105 >>, null, Nanos(721692800, 70000000), 1, 0),
    MessageRowOf(2, null, nsStringMarker \o U16Two \o << 99, 100 >>,
                 Nanos(721692800, 3000000), 0, 1),
    MessageRowOf(3, << 72, 105 >>, null, Nanos(0, 0), 0, 2),
    MessageRowOf(4, << 79, 75 >>, null, Nanos(721692800, 70000000), 1, 0) }

AttachmentTable ==
  { [ROWID |-> 5, guid |-> "att-5", filename |-> "~/a.png", mime_type |-> "image/png",
     transfer_name |-> "a.png", total_bytes |-> 10, message_id |-> 0],
    [ROWID |-> 6, guid |-> "att-6", filename |-> "", mime_type |-> "",
     transfer_name |-> "", total_bytes |-> 0, message_id |-> 0] }

Archive(ids) ==
  [chat |-> ChatTable,
   message |-> { m \in MessageTable : m.ROWID \in ids },
   chat_message_join |-> { << 3, 1 >>, << 3, 2 >>, << 7, 3 >>, << 7, 4 >> },
   chat_handle_join |-> { << 3, 1 >>, << 7, 1 >>, << 7, 2 >> },
   attachment |-> AttachmentTable,
   message_attachment_join |-> { << 1, 5 >>, << 4, 6 >> }]

Archives == { Archive({}), Archive({1, 2}), Archive({1, 2, 3, 4}) }

\* The full archive with message 1 linked to chat 7 as well as to chat 3.
SharedArchive ==
  [Archive({1, 2, 3, 4}) EXCEPT !.chat_message_join = @ \cup { << 7, 1 >> }]

\* The same archives with every style code on each chat: group, one-to-one
\* and two codes that are neither.
Styles == { 43, 44, 45, 0 }
Styled(d, s3, s7) ==
  [d EXCEPT !.chat = { [c EXCEPT !.style = IF c.ROWID = 3 THEN s3 ELSE s7] : c \in d.chat }]
StyledArchives == { Styled(d, s3, s7) : d \in Archives, s3 \in Styles, s7 \in Styles }

\* Arguments the tool schemas accept: a limit is any number (whole numbers
\* from -1 on are tried), an id any string, a date any string.
Limits == { Absent(0) } \cup { Given(n) : n \in -1 .. MaxLimit }
Ids == { << 49 >>, << 51 >>, << 57 >>, << 97, 98, 99 >>, << 51, 120 >>, << >>,
         << 32, 55 >>, << 48, 51 >> }
ChatIds == { Absent(<< >>), Given(<< 51 >>), Given(<< 57 >>), Given(<< 51, 120 >>) }
BeforeDates == { Absent(undefinedDate), Given(IsoDate(1700000000, 3)),
                 Given(IsoDate(1700000000, 123)), Given(notADate) }
AfterDates == { Absent(undefinedDate), Given(IsoDate(1262304000, 0)),
                Given(IsoDate(1700000000, 70)), Given(notADate) }
FromMes == { Absent(FALSE), Given(TRUE), Given(FALSE) }
Queries == { << >>, << 72 >>, << 99 >>, << 104, 105 >>, << 95 >>, << 37 >> }

\* Contacts the collaborator may return, and the runs of the executable.
ContactOf(name, phones, emails) ==
  [fullName |-> name, phoneNumbers |-> phones, emailAddresses |-> emails]

Dave == ContactOf("Dave", << "+15559999", "+15550100" >>, << >>)
Erin == ContactOf("Erin", << >>, << "a@example.com" >>)
Carol == ContactOf("Carol", << "+15559999" >>, << "c@example.com" >>)

Output(kind, contacts, permission) ==
  [kind |-> kind, contacts |-> contacts, permission |-> permission]

CliOutputs ==
  { Output("empty", << >>, FALSE), Output("garbage", << >>, FALSE),
    Output("error", << >>, FALSE), Output("error", << >>, TRUE) }
    \cup { Output("success", cs, FALSE) :
             cs \in { << >>, << Dave >>, << Erin >>, << Carol >>, << Carol, Erin >> } }

CliRuns == [exec : {"ok", "failed"}, stdout : CliOutputs]

NoOptions ==
  [id |-> << >>, query |-> << >>, chatId |-> Absent(<< >>), messageId |-> Absent(<< >>),
   limit |-> Absent(0), beforeDate |-> Absent(undefinedDate),
   afterDate |-> Absent(undefinedDate), fromMe |-> Absent(FALSE),
   contact |-> Absent("")]

\* ISO-8601 strings handed to isoToMacosTimestamp: instants between 1970 and
\* 2038, the archive's epoch 2001-01-01T00:00:00.000Z among them, and a
\* string that is no date.
IsoSeconds == { 0, 40980054, MACOS_EPOCH_OFFSET - 1, MACOS_EPOCH_OFFSET,
                1700000000, 2147483647 }
IsoMillis == { 0, 1, 70, 123, 500, 558, 999 }
IsoStrings == { IsoDate(s, ms) : s \in IsoSeconds, ms \in IsoMillis } \cup { notADate }

(***************************************************************************)
(* Initial states: one per operation and argument list.                    *)
(***************************************************************************)
InitDecode ==
  /\ op = "decode" /\ pc = "ready"
  /\ blob \in DecodeBlobs
  /\ pos \in 0 .. MaxDecodeLen + 1
  /\ textColumn = null /\ str = << >> /\ frame = NoFrame
  /\ row = NoRow /\ now = undefinedDate /\ ret = NoRet
  /\ args = NoArgs /\ db = NoDb /\ cli = NoCli /\ conn = NoConn

InitParse ==
  /\ pc = "ready" /\ pos = 0 /\ str = << >>
  /\ row = NoRow /\ now = undefinedDate /\ ret = NoRet
  /\ args = NoArgs /\ db = NoDb /\ cli = NoCli /\ conn = NoConn
  /\ \/ /\ op = "parse"
        /\ blob \in RawBlobs \cup {null}
        /\ frame = NoFrame /\ textColumn = null
     \/ /\ op = "parse"
        /\ frame \in Frames
        /\ blob = FramedBlob(frame)
        /\ textColumn = null
     \/ /\ op = "getMessageText"
        /\ blob \in ChunkBlobs(MaxChunks - 1) \cup {null}
        /\ textColumn \in TextColumns
        /\ frame = NoFrame

InitRegions ==
  /\ op = "regions" /\ pc = "ready"
  /\ blob \in RawBlobs
  /\ pos = 0 /\ textColumn = null /\ str = << >> /\ frame = NoFrame
  /\ row = NoRow /\ now = undefinedDate /\ ret = NoRet
  /\ args = NoArgs /\ db = NoDb /\ cli = NoCli /\ conn = NoConn

InitClassify ==
  /\ op = "classify" /\ pc = "ready"
  /\ str \in ClassifyStrings
  /\ blob = null /\ pos = 0 /\ textColumn = null /\ frame = NoFrame
  /\ row = NoRow /\ now = undefinedDate /\ ret = NoRet
  /\ args = NoArgs /\ db = NoDb /\ cli = NoCli /\ conn = NoConn

InitRow ==
  /\ op \in {"macosTimestampToISO", "rowToMessage", "lastMessage"}
  /\ pc = "ready"
  /\ row \in Rows \cup {NoRow}
  /\ now \in Clocks
  /\ blob = null /\ pos = 0 /\ textColumn = null /\ str = << >>
  /\ frame = NoFrame /\ ret = NoRet
  /\ args = NoArgs /\ db = NoDb /\ cli = NoCli /\ conn = NoConn

InitTime ==
  /\ op \in {"isoToMacosTimestamp", "roundTrip"}
  /\ pc = "ready"
  /\ args \in [isoString : IsoStrings]
  /\ blob = null /\ pos = 0 /\ textColumn = null /\ str = << >>
  /\ frame = NoFrame /\ row = NoRow /\ now = undefinedDate
  /\ db = NoDb /\ cli = NoCli /\ conn = NoConn /\ ret = NoRet

InitService ==
  /\ pc = "ready"
  /\ db \in Archives
  /\ now = IsoDate(1700000001, 500)
  /\ \/ /\ op = "listMessages"
        /\ args \in { [NoOptions EXCEPT !.chatId = c, !.limit = l, !.beforeDate = b,
                                        !.afterDate = a, !.fromMe = f] :
                        c \in ChatIds, l \in Limits, b \in BeforeDates,
                        a \in AfterDates, f \in FromMes }
     \/ /\ op = "searchMessages"
        /\ args \in { [NoOptions EXCEPT !.query = q, !.chatId = c, !.limit = l,
                                        !.beforeDate = b, !.fromMe = f] :
                        q \in Queries, c \in ChatIds, l \in Limits,
                        b \in BeforeDates, f \in FromMes }
     \/ /\ op = "listChats"
        /\ args \in { [NoOptions EXCEPT !.limit = l] : l \in Limits }
     \/ /\ op = "listAttachments"
        /\ args \in { [NoOptions EXCEPT !.chatId = c, !.messageId = m, !.limit = l] :
                        c \in ChatIds, m \in { Absent(<< >>) } \cup { Given(i) : i \in Ids },
                        l \in Limits }
     \/ /\ op \in {"getChat", "getMessage", "getAttachment"}
        /\ args \in { [NoOptions EXCEPT !.id = i] : i \in Ids }
  /\ blob = null /\ pos = 0 /\ textColumn = null /\ str = << >>
  /\ frame = NoFrame /\ row = NoRow /\ cli = NoCli /\ conn = NoConn /\ ret = NoRet

InitContact ==
  /\ pc = "ready"
  /\ op \in {"listMessages", "searchMessages"}
  /\ db \in { Archive({}), Archive({1, 2, 3, 4}) }
  /\ now = IsoDate(1700000001, 500)
  /\ cli \in CliRuns /\ conn = NoConn
  /\ args \in { [NoOptions EXCEPT !.contact = Given("Dave"), !.query = q, !.chatId = c,
                                  !.limit = l, !.beforeDate = b, !.fromMe = f] :
                  q \in { << 72 >>, << 79 >> },
                  c \in { Absent(<< >>), Given(<< 51 >>) },
                  l \in { Absent(0), Given(1) },
                  b \in { Absent(undefinedDate), Given(IsoDate(1700000000, 3)) },
                  f \in { Absent(FALSE), Given(TRUE) } }
  /\ blob = null /\ pos = 0 /\ textColumn = null /\ str = << >>
  /\ frame = NoFrame /\ row = NoRow /\ ret = NoRet

\* sendMessage: recipients 'Dave', '+1 55', 'a@b', '5', '+' and '', texts
\* with and without characters to escape, the contacts the executable may
\* answer with, and the outcomes of osascript.
Recipients ==
  { << 68, 97, 118, 101 >>, << 43, 49, 32, 53, 53 >>, << 97, 64, 98 >>, << 53 >>,
    << 43 >>, << >> }
Texts == { << 72, 105 >>, << 34, 92 >> }

Phone1 == << 43, 49, 53, 53, 53 >>
Phone2 == << 43, 52, 52 >>
Mail1 == << 100, 64, 120, 34 >>

SendContacts ==
  { << >>,
    << ContactOf("Dave", << Phone1, Phone2 >>, << Mail1 >>) >>,
    << ContactOf("Dave", << >>, << Mail1 >>) >>,
    << ContactOf("Dave", << >>, << >>) >>,
    << ContactOf("Dave", << Phone1 >>, << >>), ContactOf("David", << Phone2 >>, << >>) >> }

SendOutputs ==
  { Output("empty", << >>, FALSE), Output("garbage", << >>, FALSE),
    Output("error", << >>, TRUE) }
    \cup { Output("success", cs, FALSE) : cs \in SendContacts }

ScriptOutcomes ==
  { [success |-> TRUE, error |-> << >>],
    [success |-> FALSE, error |-> << >>],
    [success |-> FALSE, error |-> << "Can't get ", "participant", " of account." >>],
    [success |-> FALSE, error |-> << "Not authorized: ", "Automation" >>],
    [success |-> FALSE, error |-> << "Some error" >>] }

InitSend ==
  /\ op = "sendMessage" /\ pc = "ready"
  /\ args \in [recipient : Recipients, text : Texts]
  /\ cli \in [exec : {"ok", "failed"}, stdout : SendOutputs, osascript : ScriptOutcomes]
  /\ blob = null /\ pos = 0 /\ textColumn = null /\ str = << >>
  /\ frame = NoFrame /\ row = NoRow /\ now = undefinedDate
  /\ db = NoDb /\ conn = NoConn /\ ret = NoRet

\* Sessions: the store file is there or not, new Database() and the
\* statements raise an error or none, and requests follow one another.
OpenErrors ==
  { << >>, << "SQLITE_CANTOPEN", ": unable to open database file" >>,
    << "SQLITE_NOTADB", ": file is not a database" >> }
QueryErrors ==
  { << >>, << "SQLITE_CANTOPEN", ": unable to open database file" >>,
    << "SQLITE_BUSY", ": database is locked" >> }
Stores == [exists : BOOLEAN, openError : OpenErrors, queryError : QueryErrors]

ConnectionOf(store) ==
  [dbInstance |-> 0, modes |-> << >>, closed |-> {},
   exists |-> store.exists, openError |-> store.openError,
   queryError |-> store.queryError]

ServiceOps ==
  {"listChats", "getChat", "listMessages", "getMessage", "searchMessages",
   "listAttachments", "getAttachment"}

Requests ==
  { [op |-> o, args |-> NoOptions] :
      o \in {"getDatabase", "closeDatabase", "executeQuery", "listChats",
              "listMessages", "listAttachments"} }
    \cup { [op |-> "getChat", args |-> [NoOptions EXCEPT !.id = << 51 >>]],
           [op |-> "getMessage", args |-> [NoOptions EXCEPT !.id = << 49 >>]],
           [op |-> "getAttachment", args |-> [NoOptions EXCEPT !.id = << 53 >>]],
           [op |-> "searchMessages", args |-> [NoOptions EXCEPT !.query = << 72 >>]] }

InitSession ==
  /\ pc = "idle"
  /\ \E request \in Requests : op = request.op /\ args = request.args
  /\ db = Archive({1, 2})
  /\ now = IsoDate(1700000001, 500)
  /\ conn \in { ConnectionOf(store) : store \in Stores }
  /\ blob = null /\ pos = 0 /\ textColumn = null /\ str = << >>
  /\ frame = NoFrame /\ row = NoRow /\ cli = NoCli /\ ret = NoRet

InitShared ==
  /\ pc = "ready"
  /\ db \in { Archive({1, 2, 3, 4}), SharedArchive }
  /\ now = IsoDate(1700000001, 500)
  /\ \/ /\ op = "listMessages"
        /\ args \in { [NoOptions EXCEPT !.chatId = c, !.limit = l, !.fromMe = f] :
                        c \in ChatIds, l \in Limits, f \in FromMes }
     \/ /\ op = "searchMessages"
        /\ args \in { [NoOptions EXCEPT !.query = q, !.chatId = c, !.limit = l] :
                        q \in Queries, c \in ChatIds, l \in Limits }
  /\ blob = null /\ pos = 0 /\ textColumn = null /\ str = << >>
  /\ frame = NoFrame /\ row = NoRow /\ cli = NoCli /\ conn = NoConn /\ ret = NoRet

InitChats ==
  /\ pc = "ready"
  /\ db \in StyledArchives
  /\ now = IsoDate(1700000001, 500)
  /\ \/ /\ op = "listChats"
        /\ args \in { [NoOptions EXCEPT !.limit = l] : l \in Limits }
     \/ /\ op = "getChat"
        /\ args \in { [NoOptions EXCEPT !.id = i] : i \in Ids }
  /\ blob = null /\ pos = 0 /\ textColumn = null /\ str = << >>
  /\ frame = NoFrame /\ row = NoRow /\ cli = NoCli /\ conn = NoConn /\ ret = NoRet

Init ==
  InitDecode \/ InitParse \/ InitRegions \/ InitClassify \/ InitRow \/ InitTime
    \/ InitService \/ InitContact \/ InitChats \/ InitShared \/ InitSession \/ InitSend

(***************************************************************************)
(* Actions: one per function, applied to the arguments of the state.       *)
(***************************************************************************)
Return(v) ==
  /\ ret' = v
  /\ pc' = "done"
  /\ UNCHANGED <<op, blob, pos, textColumn, str, frame, row, now, args, db, cli, conn>>

CallDecodeTypedstreamLength ==
  /\ op = "decode" /\ pc = "ready"
  /\ Return(decodeTypedstreamLength(blob, pos))

CallParseAttributedBody ==
  /\ op = "parse" /\ pc = "ready"
  /\ Return(parseAttributedBody(blob))

CallGetMessageText ==
  /\ op = "getMessageText" /\ pc = "ready"
  /\ Return(getMessageText(textColumn, blob))

CallExtractPrintableRegions ==
  /\ op = "regions" /\ pc = "ready"
  /\ Return(extractPrintableRegions(blob))

CallIsPrintableText ==
  /\ op = "classify" /\ pc = "ready"
  /\ Return(isPrintableText(str))

CallMacosTimestampToISO ==
  /\ op = "macosTimestampToISO" /\ pc = "ready"
  /\ Return(macosTimestampToISO(columnNumber(row.date)))

CallRowToMessage ==
  /\ op = "rowToMessage" /\ pc = "ready"
  /\ Return(rowToMessage(row, now))

CallLastMessage ==
  /\ op = "lastMessage" /\ pc = "ready"
  /\ Return(chatLastMessage(row))

CallIsoToMacosTimestamp ==
  /\ op = "isoToMacosTimestamp" /\ pc = "ready"
  /\ Return(isoToMacosTimestamp(args.isoString))

\* macosTimestampToISO(isoToMacosTimestamp(t)), one call after the other.
RoundTripFrom ==
  /\ op = "roundTrip" /\ pc = "ready"
  /\ ret' = isoToMacosTimestamp(args.isoString)
  /\ pc' = "converted"
  /\ UNCHANGED <<op, blob, pos, textColumn, str, frame, row, now, args, db, cli, conn>>

RoundTripTo ==
  /\ op = "roundTrip" /\ pc = "converted"
  /\ Return(macosTimestampToISO(ret))

CallListMessages ==
  /\ op = "listMessages" /\ pc = "ready" /\ ~args.contact.given
  /\ \E v \in listMessages(db, args, now) : Return(v)

CallSearchMessages ==
  /\ op = "searchMessages" /\ pc = "ready" /\ ~args.contact.given
  /\ \E v \in searchMessages(db, args, now) : Return(v)

CallListChats ==
  /\ op = "listChats" /\ pc = "ready"
  /\ \E v \in listChats(db, args) : Return(v)

CallListAttachments ==
  /\ op = "listAttachments" /\ pc = "ready"
  /\ \E v \in listAttachments(db, args) : Return(v)

CallGetChat ==
  /\ op = "getChat" /\ pc = "ready"
  /\ \E v \in getChat(db, args.id) : Return(v)

CallGetMessage ==
  /\ op = "getMessage" /\ pc = "ready"
  /\ \E v \in getMessage(db, args.id, now) : Return(v)

CallGetAttachment ==
  /\ op = "getAttachment" /\ pc = "ready"
  /\ \E v \in getAttachment(db, args.id) : Return(v)

CallListMessagesForContact ==
  /\ op = "listMessages" /\ pc = "ready" /\ args.contact.given
  /\ \E v \in listMessagesForContact(db, args, now, cli) : Return(v)

CallSearchMessagesForContact ==
  /\ op = "searchMessages" /\ pc = "ready" /\ args.contact.given
  /\ \E v \in searchMessagesForContact(db, args, now, cli) : Return(v)

CallSendMessage ==
  /\ op = "sendMessage" /\ pc = "ready"
  /\ Return(sendMessage(args, cli))

\* The contact filter step by step (steps 1-6): the executable is started and
\* awaited, then the chat-id query runs, then the message query.  While the
\* call is under way ret holds what it has gathered.
InFlight(queries, subprocess, contacts, chatIds) ==
  [threw |-> FALSE, undefined |-> FALSE, value |-> << >>, queries |-> queries,
   subprocess |-> subprocess, contacts |-> contacts, chatIds |-> chatIds]

Step(position, v) ==
  /\ pc' = position /\ ret' = v
  /\ UNCHANGED <<op, blob, pos, textColumn, str, frame, row, now, args, db, cli, conn>>

StartResolve ==
  /\ op \in {"listMessages", "searchMessages"} /\ pc = "ready" /\ args.contact.given
  /\ Step("resolving", InFlight(<< "resolve" >>, "running", << >>, {}))

SubprocessExits ==
  /\ pc = "resolving" /\ ret.subprocess = "running"
  /\ Step("resolving", [ret EXCEPT !.subprocess = "exited"])

ResumeAfterResolve ==
  /\ pc = "resolving" /\ ret.subprocess = "exited"
  /\ LET resolved == resolveContact(args.contact.v, cli)
     IN IF resolved.threw THEN Step("done", Traced(Thrown, ret.queries))
        ELSE IF resolved.contacts = << >>
          THEN Step("done", Traced(Returned(<< >>), ret.queries))
        ELSE Step("chatIds", [ret EXCEPT !.contacts = resolved.contacts])

QueryChatIds ==
  /\ pc = "chatIds"
  /\ LET chatIds == getChatIdsByIdentifiers(db, identifiersOf(ret.contacts))
         queries == Append(ret.queries, "chatIds")
     IN IF chatIds = {} THEN Step("done", Traced(Returned(<< >>), queries))
        ELSE Step("messages", [ret EXCEPT !.queries = queries, !.chatIds = chatIds])

QueryMessages ==
  /\ pc = "messages"
  /\ \E rows \in SelectMessages(
                    { r \in MessageJoin(db) :
                        /\ r.chat_id \in ret.chatIds
                        /\ IF op = "listMessages" THEN listMessagesWhere(args, r)
                           ELSE searchMessagesWhere(args, r) },
                    orDefault(args.limit)) :
       Step("done", Traced(Returned(mapRows(rows, now)), Append(ret.queries, "messages")))

\* A session: a request is served from "idle" to "done"; then the store may
\* change and the next request arrives.
Serve(c, d, v) ==
  /\ conn' = c /\ db' = d /\ ret' = v
  /\ pc' = "done"
  /\ UNCHANGED <<op, blob, pos, textColumn, str, frame, row, now, args, cli>>

CallGetDatabase ==
  /\ op = "getDatabase" /\ pc = "idle"
  /\ conn.dbInstance # 0 \/ Len(conn.modes) < MaxOpens
  /\ LET opened == getDatabase(conn)
     IN Serve(opened.conn, db,
              IF opened.threw THEN Failed(opened.error) ELSE Returned(opened.handle))

CallCloseDatabase ==
  /\ op = "closeDatabase" /\ pc = "idle"
  /\ Serve(closeDatabase(conn), db, ReturnedUndefined)

CallExecuteQuery ==
  /\ op = "executeQuery" /\ pc = "idle"
  /\ conn.dbInstance # 0 \/ Len(conn.modes) < MaxOpens
  /\ LET q == executeQuery(conn)
     IN Serve(q.conn,
              IF q.handle = 0 THEN db
              ELSE afterStatements(db, q.conn.modes[q.handle], << "SELECT" >>),
              IF q.threw THEN Failed(q.error) ELSE Returned(q.handle))

serviceResults(o, d, a, clock) ==
  CASE o = "listChats" -> listChats(d, a)
    [] o = "getChat" -> getChat(d, a.id)
    [] o = "listMessages" -> listMessages(d, a, clock)
    [] o = "getMessage" -> getMessage(d, a.id, clock)
    [] o = "searchMessages" -> searchMessages(d, a, clock)
    [] o = "listAttachments" -> listAttachments(d, a)
    [] o = "getAttachment" -> getAttachment(d, a.id)

\* A MessagesService operation, its queries run through the query helpers.
CallService ==
  /\ op \in ServiceOps /\ pc = "idle"
  /\ conn.dbInstance # 0 \/ Len(conn.modes) < MaxOpens
  /\ LET q == executeQuery(conn)
     IN IF q.threw
          THEN Serve(q.conn,
                     IF q.handle = 0 THEN db
                     ELSE afterStatements(db, q.conn.modes[q.handle], << "SELECT" >>),
                     Failed(q.error))
        ELSE \E v \in serviceResults(op, db, args, now) :
               Serve(q.conn, afterStatements(db, q.conn.modes[q.handle], statementsOf(op)), v)

StoreChanges ==
  /\ pc = "done"
  /\ \E store \in Stores :
       conn' = [conn EXCEPT !.exists = store.exists, !.openError = store.openError,
                            !.queryError = store.queryError]
  /\ conn' # conn
  /\ UNCHANGED <<op, pc, blob, pos, textColumn, str, frame, row, now, args, db, cli, ret>>

NextRequest ==
  /\ pc = "done" /\ conn # NoConn
  /\ \E request \in Requests : op' = request.op /\ args' = request.args
  /\ pc' = "idle" /\ ret' = NoRet
  /\ UNCHANGED <<blob, pos, textColumn, str, frame, row, now, db, cli, conn>>

NextDecode == CallDecodeTypedstreamLength
NextParse == CallParseAttributedBody \/ CallGetMessageText
NextRegions == CallExtractPrintableRegions
NextClassify == CallIsPrintableText
NextRow == CallMacosTimestampToISO \/ CallRowToMessage \/ CallLastMessage

NextTime == CallIsoToMacosTimestamp \/ RoundTripFrom \/ RoundTripTo
NextService ==
  \/ CallListMessages \/ CallSearchMessages \/ CallListChats \/ CallListAttachments
  \/ CallGetChat \/ CallGetMessage \/ CallGetAttachment
NextContact == CallListMessagesForContact \/ CallSearchMessagesForContact
NextChats == CallListChats \/ CallGetChat
NextShared == CallListMessages \/ CallSearchMessages
NextPipeline ==
  StartResolve \/ SubprocessExits \/ ResumeAfterResolve \/ QueryChatIds \/ QueryMessages
NextSend == CallSendMessage
NextSession ==
  \/ CallGetDatabase \/ CallCloseDatabase \/ CallExecuteQuery \/ CallService
  \/ StoreChanges \/ NextRequest

Next ==
  NextDecode \/ NextParse \/ NextRegions \/ NextClassify \/ NextRow \/ NextTime
    \/ NextService \/ NextContact \/ NextPipeline \/ NextSend \/ NextSession

Spec == Init /\ [][Next]_vars
SpecDecode == InitDecode /\ [][NextDecode]_vars
SpecParse == InitParse /\ [][NextParse]_vars
SpecRegions == InitRegions /\ [][NextRegions]_vars
SpecClassify == InitClassify /\ [][NextClassify]_vars
SpecRow == InitRow /\ [][NextRow]_vars
SpecTime == InitTime /\ [][NextTime]_vars
SpecService == InitService /\ [][NextService]_vars
SpecContact == InitContact /\ [][NextContact]_vars
SpecChats == InitChats /\ [][NextChats]_vars
SpecShared == InitShared /\ [][NextShared]_vars
SpecPipeline == InitContact /\ [][NextPipeline]_vars
SpecSend == InitSend /\ [][NextSend]_vars
SpecSession == InitSession /\ [][NextSession]_vars

(***************************************************************************)
(* Vocabulary of the properties, stated from the buffer alone.             *)
(***************************************************************************)
Called(o) == op = o /\ pc = "done"

IsString(v) == v \in Seq(0 .. 65535)

\* A run is a candidate region that survives the noise filter.
Survives(t) ==
  /\ Len(t) >= 2 /\ isPrintableText(t)
  /\ SubSeq(t, 1, 2) # <<78, 83>>
  /\ ~(Len(t) >= 11 /\ SubSeq(t, 1, 11) = streamHeader)
  /\ \A k \in 1 .. Len(t) :
       /\ ~(k + 7 <= Len(t) /\ SubSeq(t, k, k + 7) = nsStringMarker)
       /\ ~(k + 24 <= Len(t) /\ SubSeq(t, k, k + 24) = nsMutableAttributedString)
SurvivingRuns(b) == { i \in RunStarts(b) : Survives(RunText(b, i)) }

\* The cursor of a marker strategy: the first index at or after the end of
\* the first occurrence of the marker whose byte is not below 0x20.
CursorAfter(b, marker) ==
  LET from == indexOf(b, marker) + Len(marker)
      stops == { i \in from .. Len(b) - 1 : ByteAt(b, i) >= 32 }
  IN  IF stops = {} THEN Len(b) ELSE CHOOSE i \in stops : \A j \in stops : i <= j

\* The bytes a length prefix at index p announces, when they lie in the buffer.
Truncated(b, p) ==
  \/ ByteAt(b, p) = 129 /\ p + 2 >= Len(b)
  \/ ByteAt(b, p) = 130 /\ p + 4 >= Len(b)

(***************************************************************************)
(* C4.  decodeTypedstreamLength equals the reference table: a position at  *)
(* or past the end gives (0, 0); a byte below 0x80 gives (byte, 1); 0x81   *)
(* with two following bytes gives (their unsigned little-endian 16-bit     *)
(* value, 3); 0x82 with four following bytes gives (their unsigned         *)
(* little-endian 32-bit value, 5); any other byte value gives (byte, 1).   *)
(***************************************************************************)
C4_DecodeTable ==
  Called("decode") =>
    LET n == Len(blob)
        byte == ByteAt(blob, pos)
        b1 == ByteAt(blob, pos + 1)
        b2 == ByteAt(blob, pos + 2)
        b3 == ByteAt(blob, pos + 3)
        b4 == ByteAt(blob, pos + 4)
    IN  /\ pos >= n =>
             ret.length = [hi |-> 0, lo |-> 0] /\ ret.bytesConsumed = 0
        /\ (pos < n /\ byte < 128) =>
             ret.length = [hi |-> 0, lo |-> byte] /\ ret.bytesConsumed = 1
        /\ (pos < n /\ byte = 129 /\ pos + 2 < n) =>
             ret.length = [hi |-> 0, lo |-> b1 + 256 * b2] /\ ret.bytesConsumed = 3
        /\ (pos < n /\ byte = 130 /\ pos + 4 < n) =>
             /\ ret.length = [hi |-> b3 + 256 * b4, lo |-> b1 + 256 * b2]
             /\ ret.bytesConsumed = 5
        /\ (pos < n /\ byte >= 128 /\ byte # 129 /\ byte # 130) =>
             ret.length = [hi |-> 0, lo |-> byte] /\ ret.bytesConsumed = 1

\* A 0x82 prefix with four following bytes decoded to a value of 2^31 or more.
C4_Witness ==
  /\ Called("decode") /\ ByteAt(blob, pos) = 130 /\ pos + 4 < Len(blob)
  /\ ret.bytesConsumed = 5 /\ ret.length.hi >= 32768 /\ ret.length.lo = 44 + 256 * 255

(***************************************************************************)
(* C5.  decodeTypedstreamLength reads no index at or past blob.length; a   *)
(* 0x81 with fewer than 2 bytes after it, or a 0x82 with fewer than 4,     *)
(* returns (0, 1) without reading the missing bytes; as stated, in every   *)
(* case pos + bytesConsumed <= blob.length.                                *)
(***************************************************************************)
C5_Original ==
  Called("decode") =>
    /\ ret.reads \subseteq 0 .. Len(blob) - 1
    /\ ~ret.threw
    /\ (pos < Len(blob) /\ Truncated(blob, pos)) =>
         /\ ret.length = [hi |-> 0, lo |-> 0] /\ ret.bytesConsumed = 1
         /\ ret.reads = {pos}
    /\ pos + ret.bytesConsumed <= Len(blob)

\* C5 as amended: the bound on pos + bytesConsumed holds for a position
\* inside the buffer or at its end; past the end nothing is read or consumed.
C5_NoOverread ==
  Called("decode") =>
    /\ ret.reads \subseteq 0 .. Len(blob) - 1
    /\ ~ret.threw
    /\ (pos < Len(blob) /\ Truncated(blob, pos)) =>
         /\ ret.length = [hi |-> 0, lo |-> 0] /\ ret.bytesConsumed = 1
         /\ ret.reads = {pos}
    /\ pos <= Len(blob) => pos + ret.bytesConsumed <= Len(blob)
    /\ pos > Len(blob) => ret.bytesConsumed = 0 /\ ret.reads = {}

\* A 0x82 followed by three bytes only was answered (0, 1).
C5_Witness ==
  /\ Called("decode") /\ ByteAt(blob, pos) = 130 /\ pos + 4 = Len(blob)
  /\ ret.length = [hi |-> 0, lo |-> 0] /\ ret.bytesConsumed = 1

(***************************************************************************)
(* C6.  isPrintableText(s) is FALSE for the empty string and otherwise     *)
(* TRUE exactly when the characters of s that are printable (0x20-0x7E,    *)
(* above 0x7F, newline, carriage return, tab) number at least 80% of the   *)
(* characters of s, for every string, non-ASCII ones included.  A          *)
(* character is a code point: a surrogate pair is one character.           *)
(***************************************************************************)
PrintableChars(s) == { k \in CharStarts(s) : PrintableCode(s[k]) }

C6_Original ==
  Called("classify") =>
    (ret <=> /\ Len(str) # 0
             /\ 5 * Cardinality(PrintableChars(str))
                  >= 4 * Cardinality(CharStarts(str)))

(***************************************************************************)
(* C9.  extractPrintableRegions returns the longest of the candidate       *)
(* regions that survive the noise filter, the empty string when none       *)
(* survives and, as stated, the first in the blob of several longest ones. *)
(***************************************************************************)
LongestRuns(b) ==
  { i \in SurvivingRuns(b) :
      \A j \in SurvivingRuns(b) : Len(RunText(b, j)) <= Len(RunText(b, i)) }

C9_Original ==
  Called("regions") =>
    IF SurvivingRuns(blob) = {} THEN ret = << >>
    ELSE \E i \in LongestRuns(blob) :
           /\ \A j \in LongestRuns(blob) : i <= j
           /\ ret = RunText(blob, i)

\* C9 as amended: of several longest surviving regions the one that occurs
\* last in the blob is returned.
C9_LastLongest ==
  Called("regions") =>
    IF SurvivingRuns(blob) = {} THEN ret = << >>
    ELSE \E i \in LongestRuns(blob) :
           /\ \A j \in LongestRuns(blob) : j <= i
           /\ ret = RunText(blob, i)

\* Two surviving regions of the same greatest length and different text, the
\* later one returned.
C9_Witness ==
  /\ Called("regions")
  /\ \E i, j \in LongestRuns(blob) :
       i < j /\ RunText(blob, i) # RunText(blob, j) /\ ret = RunText(blob, j)

(***************************************************************************)
(* C10.  A zero or null timestamp maps to an absent value everywhere:      *)
(* macosTimestampToISO returns undefined, and the message built by         *)
(* rowToMessage and the chat's lastMessageDate carry no timestamp.         *)
(***************************************************************************)
NoTimestamp(d) == d = nullNanos \/ d = Nanos(0, 0)

C10_Original ==
  /\ (Called("macosTimestampToISO") /\ NoTimestamp(row.date)) => ~ret.defined
  /\ (Called("rowToMessage") /\ row.exists /\ NoTimestamp(row.date)) =>
       ~ret.date.defined
  /\ (Called("lastMessage") /\ row.exists /\ NoTimestamp(row.date)) =>
       ~ret.lastMessageDate.defined

(***************************************************************************)
(* Vocabulary of the parser properties.                                    *)
(***************************************************************************)
HasBytes(b) == b # null /\ Len(b) > 0

\* What acceptance demands of the length prefix at the cursor of a marker
\* and of the bytes it announces.
Acceptable(b, marker) ==
  LET p == CursorAfter(b, marker)
      d == decodeTypedstreamLength(b, p)
  IN  /\ p < Len(b)
      /\ WidePos(d.length) /\ WideLess(d.length, 100000)
      /\ p + d.bytesConsumed + WideInt(d.length) <= Len(b)
      /\ isPrintableText(toStringUtf8(
           subarray(b, p + d.bytesConsumed,
                    p + d.bytesConsumed + WideInt(d.length))))
AnnouncedText(b, marker) ==
  LET p == CursorAfter(b, marker)
      d == decodeTypedstreamLength(b, p)
  IN  toStringUtf8(subarray(b, p + d.bytesConsumed,
                            p + d.bytesConsumed + WideInt(d.length)))
Accepted(b, marker) == indexOf(b, marker) # -1 /\ Acceptable(b, marker)

NothingRecoverable(b) ==
  \/ ~HasBytes(b)
  \/ /\ ~Accepted(b, nsStringMarker) /\ ~Accepted(b, nsMutableMarker)
     /\ SurvivingRuns(b) = {}

Blank(t) == t = null \/ \A k \in 1 .. Len(t) : IsWhiteSpace(t[k])

(***************************************************************************)
(* C1.  For every blob (null, empty, truncated, corrupt, arbitrary) and    *)
(* every text column, parseAttributedBody and getMessageText return a      *)
(* string and never raise; when no text can be recovered the result is     *)
(* the empty string.                                                       *)
(***************************************************************************)
C1_NeverRaises ==
  /\ Called("parse") =>
       /\ ~ret.threw /\ IsString(ret.value)
       /\ NothingRecoverable(blob) => ret.value = << >>
  /\ Called("getMessageText") =>
       /\ ~ret.threw /\ IsString(ret.value)
       /\ (Blank(textColumn) /\ NothingRecoverable(blob)) => ret.value = << >>

\* A blob cut off inside the length prefix that follows its marker, with a
\* null text column, gave the empty string.
C1_Witness ==
  /\ Called("getMessageText") /\ textColumn = null /\ HasBytes(blob)
  /\ indexOf(blob, nsStringMarker) # -1
  /\ Truncated(blob, CursorAfter(blob, nsStringMarker))
  /\ ret.value = << >> /\ ~ret.threw

(***************************************************************************)
(* C2.  getMessageText(text, blob) returns text unchanged, the blob not    *)
(* decoded, when text is non-null and non-blank after trimming; otherwise  *)
(* it returns exactly parseAttributedBody(blob), the empty string for a    *)
(* null or empty blob.                                                     *)
(***************************************************************************)
C2_TextPreferred ==
  Called("getMessageText") =>
    IF ~Blank(textColumn)
    THEN ret.value = textColumn /\ ~ret.parsed
    ELSE /\ ret.parsed /\ ret.value = parseAttributedBody(blob).value
         /\ ~HasBytes(blob) => ret.value = << >>

\* A non-blank text column returned although the blob decodes to another text.
C2_Witness ==
  /\ Called("getMessageText") /\ ~Blank(textColumn) /\ HasBytes(blob)
  /\ parseAttributedBody(blob).value # << >>
  /\ parseAttributedBody(blob).value # textColumn
  /\ ret.value = textColumn /\ ~ret.parsed

(***************************************************************************)
(* C8.  A marker candidate is accepted only if the decoded length L has    *)
(* 0 < L < 100000, cursor + bytesConsumed + L <= blob.length and the       *)
(* decoded bytes pass isPrintableText; a truncated length is a failure;    *)
(* on rejection the next strategy is tried; no byte outside the blob is    *)
(* read.                                                                   *)
(***************************************************************************)
CandidateChecked(b, marker) ==
  LET c == markerCandidate(b, marker)
  IN  /\ c.found <=> indexOf(b, marker) # -1
      /\ c.found => c.cursor = CursorAfter(b, marker)
      /\ c.accepted <=> Accepted(b, marker)
      /\ c.accepted => c.text = AnnouncedText(b, marker)
      /\ (c.found /\ Truncated(b, CursorAfter(b, marker))) => ~c.accepted
      /\ c.reads \subseteq 0 .. Len(b) - 1
      /\ ~c.threw

C8_Acceptance ==
  (Called("parse") /\ HasBytes(blob)) =>
    /\ CandidateChecked(blob, nsStringMarker)
    /\ CandidateChecked(blob, nsMutableMarker)
    /\ ret.strategy = 1 =>
         Accepted(blob, nsStringMarker)
         /\ ret.value = AnnouncedText(blob, nsStringMarker)
    /\ ret.strategy = 2 =>
         Accepted(blob, nsMutableMarker)
         /\ ret.value = AnnouncedText(blob, nsMutableMarker)
    /\ ~Accepted(blob, nsStringMarker) =>
         /\ ret.strategy # 1
         /\ Accepted(blob, nsMutableMarker) => ret.strategy = 2
         /\ ~Accepted(blob, nsMutableMarker) =>
              ret.value = extractPrintableRegions(blob)

\* An 'NSString' candidate whose length lies in (0, 100000) but runs past the
\* end of the blob was rejected, and the 'NSMutableString' strategy answered.
C8_Witness ==
  /\ Called("parse") /\ HasBytes(blob)
  /\ LET c == markerCandidate(blob, nsStringMarker)
     IN  /\ c.found /\ c.decoded /\ ~c.accepted
         /\ WidePos(c.length) /\ WideLess(c.length, 100000)
         /\ c.cursor + c.bytesConsumed + WideInt(c.length) > Len(blob)
  /\ ret.strategy = 2 /\ ret.value # << >>

(***************************************************************************)
(* C7.  parseAttributedBody tries its strategies in a fixed priority       *)
(* order and returns the result of the first that yields a validated text, *)
(* later ones not consulted.  As stated the order is: the two-byte content *)
(* marker (0x01, 0x2B) with the length directly after it and no padding    *)
(* skip, the 'NSString' marker, the 'NSMutableString' marker, the          *)
(* printable-region scan.                                                  *)
(***************************************************************************)
contentMarker == <<1, 43>>

\* The candidate the stated first strategy would examine.
contentCandidate(b) ==
  IF indexOf(b, contentMarker) = -1 THEN NoCandidate(FALSE, -1, {})
  ELSE candidateAt(b, indexOf(b, contentMarker) + 2, indexOf(b, contentMarker) + 2)

FramedCall == Called("parse") /\ frame.kind = "framed"
FrameLength == Len(BufferFrom(frame.text))

WellFormed(s) ==
  \A k \in 1 .. Len(s) :
    /\ IsHighSurrogate(s[k]) => PairAt(s, k)
    /\ IsLowSurrogate(s[k]) => PairAt(s, k - 1)
ReadAsLength(enc, L) ==
  enc = "u8" => (L >= 32 /\ L <= 255 /\ L # 129 /\ L # 130)

C11_Original ==
  (Called("roundTrip") /\ args.isoString.kind = "iso") => ret = args.isoString

(***************************************************************************)
(* Vocabulary of the query properties.                                     *)
(***************************************************************************)
Unparseable(option) == option.given /\ option.v.kind = "text"
Parseable(option) == option.given /\ option.v.kind = "iso"

\* Instant a is strictly before instant b.
IsoBefore(a, b) == a.sec < b.sec \/ (a.sec = b.sec /\ a.ms < b.ms)

\* The id string s names the record id (the decimal digits of a ROWID): after
\* white space, a plus sign and zeros it starts with the digits of id, and
\* no digit follows them.
Names(s, id) ==
  LET t == trimStart(s)
      u == IF t # << >> /\ t[1] = 43 THEN Tail(t) ELSE t
  IN \E z \in 0 .. Len(u) :
       /\ \A i \in 1 .. z : u[i] = 48
       /\ z + Len(id) <= Len(u)
       /\ SubSeq(u, z + 1, z + Len(id)) = id
       /\ z + Len(id) = Len(u) \/ ~IsDigit(u[z + Len(id) + 1])

ListCalled ==
  pc = "done" /\ op \in {"listChats", "listMessages", "searchMessages", "listAttachments"}

(***************************************************************************)
(* C12.  listMessages with a beforeDate or afterDate that cannot be parsed *)
(* fails with an error: no query runs with a not-a-number bound and no     *)
(* result list is returned.                                                *)
(***************************************************************************)
C12_Original ==
  (Called("listMessages") /\ (Unparseable(args.beforeDate) \/ Unparseable(args.afterDate)))
    => ret.threw

(***************************************************************************)
(* Vocabulary of the contact-filter properties, stated from the run of the *)
(* executable and the archive.                                             *)
(***************************************************************************)
ContactCalled == pc = "done" /\ op \in {"listMessages", "searchMessages"} /\ args.contact.given

ContactsReturned == IF cli.stdout.kind = "success" THEN cli.stdout.contacts ELSE << >>

\* Handle h carries a phone number or an email of one of the contacts.
HandleOfContacts(h) ==
  \E i \in DOMAIN ContactsReturned :
    \/ \E k \in DOMAIN ContactsReturned[i].phoneNumbers :
         ContactsReturned[i].phoneNumbers[k] = HandleRows[h]
    \/ \E k \in DOMAIN ContactsReturned[i].emailAddresses :
         ContactsReturned[i].emailAddresses[k] = HandleRows[h]

ContactChats == { j[1] : j \in { j \in db.chat_handle_join : HandleOfContacts(j[2]) } }

C14_Original ==
  (ContactCalled /\ ~ret.threw /\ ContactsReturned # << >>) =>
    /\ \A i \in DOMAIN ret.value :
         /\ \E c \in ContactChats : ret.value[i].chatId = StringOf(c)
         /\ Truthy(args.chatId) => Names(args.chatId.v, ret.value[i].chatId)
         /\ Parseable(args.beforeDate) =>
              IsoBefore(ret.value[i].date, args.beforeDate.v)
         /\ args.fromMe.given => ret.value[i].isFromMe = args.fromMe.v
         /\ op = "searchMessages" => includes(ret.value[i].text, args.query)
    /\ (args = [NoOptions EXCEPT !.contact = Given("Dave"), !.query = << 72 >>]
          /\ op = "listMessages") =>
         Len(ret.value) = Cardinality({ r \in MessageJoin(db) : r.chat_id \in ContactChats })

C16_Original ==
  (Called("listMessages") /\ ~ret.threw) =>
    /\ \A i \in DOMAIN ret.value :
         /\ Truthy(args.chatId) => Names(args.chatId.v, ret.value[i].chatId)
         /\ Parseable(args.beforeDate) =>
              IsoBefore(ret.value[i].date, args.beforeDate.v)
         /\ Parseable(args.afterDate) =>
              IsoBefore(args.afterDate.v, ret.value[i].date)
         /\ args.fromMe.given => ret.value[i].isFromMe = args.fromMe.v
    /\ \A i, j \in DOMAIN ret.value :
         i < j => ~IsoBefore(ret.value[i].date, ret.value[j].date)
    /\ (args = NoOptions) => Len(ret.value) = Cardinality(MessageJoin(db))

(***************************************************************************)
(* C17.  listChats, listMessages, searchMessages and listAttachments never *)
(* return more records than the limit supplied, and never more than 50     *)
(* when none is supplied, whatever limit the schema accepts.               *)
(***************************************************************************)
C17_Original ==
  (ListCalled /\ ~ret.threw) =>
    Len(ret.value) <= (IF args.limit.given THEN args.limit.v ELSE 50)

(***************************************************************************)
(* C18.  searchMessages matches the query against the resolved text: a     *)
(* message whose resolved text (the text column, or the text decoded from  *)
(* the blob when the column is null or blank) contains the query is        *)
(* returned when no other filter and no limit excludes it.                 *)
(***************************************************************************)
C18_Original ==
  (Called("searchMessages") /\ ~ret.threw /\ ~args.chatId.given /\ ~args.limit.given) =>
    \A r \in MessageJoin(db) :
      includes(getMessageText(r.text, r.attributedBody).value, args.query) =>
        \E i \in DOMAIN ret.value : ret.value[i].id = StringOf(r.ROWID)

(***************************************************************************)
(* C19.  searchMessages rejects an empty query instead of running it, and  *)
(* it applies the filters of listMessages: besides the chat id, the date   *)
(* bounds and the from-me flag.                                            *)
(***************************************************************************)
C19_Original ==
  Called("searchMessages") =>
    /\ args.query = << >> => ret.threw
    /\ ~ret.threw =>
         \A i \in DOMAIN ret.value :
           /\ Parseable(args.beforeDate) =>
                IsoBefore(ret.value[i].date, args.beforeDate.v)
           /\ args.fromMe.given => ret.value[i].isFromMe = args.fromMe.v

(***************************************************************************)
(* C20.  getChat, getMessage and getAttachment raise no exception, and     *)
(* return undefined for every id string that names no row of the table,    *)
(* ids that are not numeric included.                                      *)
(***************************************************************************)
NoRowNamed(rows, id) == \A r \in rows : ~Names(id, StringOf(r.ROWID))

ChatRowOf(record) == CHOOSE c \in db.chat : StringOf(c.ROWID) = record.id

FlagFromStyle(record) == record.isGroup <=> (ChatRowOf(record).style = 43)

C21_GroupFlag ==
  /\ Called("listChats") =>
       \A i \in DOMAIN ret.value :
         /\ FlagFromStyle(ret.value[i])
         /\ \A one \in getChat(db, ret.value[i].id) :
              ~one.undefined /\ one.value.isGroup = ret.value[i].isGroup
  /\ (Called("getChat") /\ ~ret.undefined) => FlagFromStyle(ret.value)

C21_Witness ==
  /\ Called("listChats") /\ Len(ret.value) = 2
  /\ \E i, j \in DOMAIN ret.value :
       /\ ret.value[i].isGroup /\ ~ret.value[j].isGroup
       /\ ChatRowOf(ret.value[j]).style \notin {43, 45}

(***************************************************************************)
(* C22.  Over any sequence of getDatabase and closeDatabase calls: a       *)
(* handle is opened only when none is cached; a getDatabase call made      *)
(* while a handle is cached returns that handle and opens nothing;         *)
(* closeDatabase closes the cached handle and clears the cache, so that    *)
(* the next getDatabase opens a new handle; and the handle getDatabase     *)
(* returns is never a closed one.                                          *)
(***************************************************************************)
Serving(o) == op = o /\ pc = "idle" /\ pc' = "done"

C22_Lifecycle ==
  [][/\ Len(conn'.modes) > Len(conn.modes) => conn.dbInstance = 0
     /\ (Serving("getDatabase") /\ conn.dbInstance # 0) =>
          ret' = Returned(conn.dbInstance) /\ conn' = conn
     /\ (Serving("getDatabase") /\ conn.dbInstance = 0 /\ ~ret'.threw) =>
          /\ Len(conn'.modes) = Len(conn.modes) + 1
          /\ ret'.value = Len(conn'.modes)
     /\ (Serving("getDatabase") /\ ~ret'.threw) =>
          ret'.value = conn'.dbInstance /\ ret'.value \notin conn'.closed
     /\ Serving("closeDatabase") =>
          /\ conn'.dbInstance = 0
          /\ conn'.closed = conn.closed \cup ({conn.dbInstance} \ {0})
          /\ conn'.modes = conn.modes]_vars

\* A second handle is returned after the first one was closed.
C22_Witness ==
  /\ Called("getDatabase") /\ ret = Returned(2)
  /\ conn.closed = {1} /\ conn.dbInstance = 2

(***************************************************************************)
(* C23.  When opening the store fails with a message that contains         *)
(* 'SQLITE_CANTOPEN', getDatabase and the query helpers raise an           *)
(* access-denied error with the Full Disk Access guidance; every other     *)
(* failure of the open or of a query is raised again unchanged.            *)
(***************************************************************************)
Signature(error) == includes(error, << "SQLITE_CANTOPEN" >>)

Guidance(error) ==
  /\ includes(error, << "Cannot open Messages database. Full Disk Access is required." >>)
  /\ includes(error, << "System Settings > Privacy & Security > Full Disk Access" >>)

UsesHelpers == op \in ServiceOps \cup {"executeQuery"} /\ pc = "idle" /\ pc' = "done"

OpenFails == conn.dbInstance = 0 /\ conn.exists /\ conn.openError # << >>
QueryFails ==
  /\ conn.dbInstance # 0 \/ (conn.exists /\ conn.openError = << >>)
  /\ conn.queryError # << >>

OpenClassified ==
  ((Serving("getDatabase") \/ UsesHelpers) /\ OpenFails) =>
    /\ ret'.threw
    /\ IF Signature(conn.openError) THEN Guidance(ret'.error) /\ ~Signature(ret'.error)
       ELSE ret'.error = conn.openError

C23_Original ==
  [][/\ OpenClassified
     /\ (UsesHelpers /\ QueryFails) => ret'.threw /\ ret'.error = conn.queryError]_vars

(***************************************************************************)
(* C23, amended.  A failure whose message contains 'SQLITE_CANTOPEN',      *)
(* raised by the open or by a statement of a query helper, is replaced by  *)
(* an access-denied error with the Full Disk Access guidance; every        *)
(* failure without that signature is raised again unchanged.               *)
(***************************************************************************)
C23_BySignature ==
  [][/\ OpenClassified
     /\ (UsesHelpers /\ QueryFails) =>
          /\ ret'.threw
          /\ IF Signature(conn.queryError)
               THEN Guidance(ret'.error) /\ ~Signature(ret'.error)
             ELSE ret'.error = conn.queryError]_vars

\* A query helper has met the open failure with the signature.
C23_Witness ==
  /\ Called("executeQuery") /\ ret.threw /\ ret.error = AccessDeniedError
  /\ conn.dbInstance = 0 /\ conn.exists /\ Signature(conn.openError)

(***************************************************************************)
(* C24.  Whatever sequence of listChats, getChat, listMessages,            *)
(* getMessage, searchMessages, listAttachments and getAttachment calls is  *)
(* served, the rows of the archive stay as they were: every handle is      *)
(* opened read-only and every statement prepared is a SELECT.              *)
(***************************************************************************)
C24_ReadOnly ==
  [][/\ db' = db
     /\ \A h \in DOMAIN conn'.modes : conn'.modes[h] = "readonly"
     /\ \A o \in ServiceOps :
          \A i \in DOMAIN statementsOf(o) : statementsOf(o)[i] = "SELECT"]_vars

\* A service call has been answered through an open handle.
C24_Witness ==
  /\ Called("listChats") /\ ~ret.threw /\ Len(ret.value) = 2
  /\ conn.dbInstance # 0 /\ db = Archive({1, 2})

(***************************************************************************)
(* C25.  In a contact-filtered listMessages or searchMessages the chat-id  *)
(* query starts only after the contact-resolution subprocess has exited    *)
(* (with contacts), the message query starts only after the chat-id query  *)
(* has returned a non-empty set, and the steps follow one another in that  *)
(* order, one at a time.                                                   *)
(***************************************************************************)
PipelineOrder == << "ready", "resolving", "chatIds", "messages", "done" >>

PositionOf(position) == CHOOSE k \in DOMAIN PipelineOrder : PipelineOrder[k] = position

IsPrefix(a, b) == Len(a) <= Len(b) /\ a = SubSeq(b, 1, Len(a))

Advances ==
  \/ /\ PositionOf(pc') > PositionOf(pc)
     /\ pc' = "messages" => pc = "chatIds"
     /\ pc' = "chatIds" => pc = "resolving"
     /\ pc' = "resolving" => pc = "ready"
  \/ pc' = pc /\ pc = "resolving" /\ ret.subprocess = "running"

Gathered ==
  /\ pc = "chatIds" =>
       /\ ret.subprocess = "exited" /\ ret.queries = << "resolve" >>
       /\ cli.stdout.kind = "success"
       /\ ret.contacts = ContactsReturned /\ ret.contacts # << >>
  /\ pc = "messages" =>
       /\ ret.subprocess = "exited" /\ ret.queries = << "resolve", "chatIds" >>
       /\ ret.chatIds = ContactChats /\ ret.chatIds # {}
  /\ pc = "done" =>
       /\ IsPrefix(ret.queries, << "resolve", "chatIds", "messages" >>)
       /\ Len(ret.queries) = 3 => ContactChats # {}
       /\ Len(ret.queries) >= 2 => (~ret.threw /\ ContactsReturned # << >>)

ResolvesTo(contacts) ==
  /\ Called("sendMessage") /\ ~isPhoneOrEmail(args.recipient) /\ args.recipient # << >>
  /\ cli.stdout.kind = "success" /\ cli.stdout.contacts = contacts

NotSent ==
  /\ ~ret.result.success /\ ret.result.error # << >>
  /\ ret.result.recipient = args.recipient
  /\ ret.scripts = << >>

SentTo(identifier) ==
  /\ Len(ret.scripts) = 1
  /\ ret.scripts[1].recipient = escapeForAppleScript(identifier)
  /\ ret.result.recipient = identifier
  /\ ret.result.success = cli.osascript.success

C26_NameResolution ==
  \A contacts \in SendContacts :
    ResolvesTo(contacts) =>
      IF Len(contacts) # 1 THEN NotSent
      ELSE IF contacts[1].phoneNumbers # << >> THEN SentTo(contacts[1].phoneNumbers[1])
      ELSE IF contacts[1].emailAddresses # << >> THEN SentTo(contacts[1].emailAddresses[1])
      ELSE NotSent

\* Two contacts carry the name: nothing is sent.
C26_Witness ==
  /\ \E contacts \in SendContacts : Len(contacts) = 2 /\ ResolvesTo(contacts)
  /\ args.recipient = << 68, 97, 118, 101 >> /\ cli.osascript.success
  /\ ~ret.result.success /\ ret.scripts = << >>

(***************************************************************************)
(* C27.  A record returned by getChat(id), getMessage(id) or               *)
(* getAttachment(id) has the id string that was passed in as its id, and   *)
(* an id string that is not the decimal form of the id of a row of the     *)
(* table gives the absent result.                                          *)
(***************************************************************************)
DecimalFormOfRow(rows, id) == \E r \in rows : StringOf(r.ROWID) = id

TableOf(o) ==
  IF o = "getChat" THEN db.chat ELSE IF o = "getMessage" THEN db.message ELSE db.attachment

C27_Original ==
  \A o \in {"getChat", "getMessage", "getAttachment"} :
    Called(o) =>
      /\ ~ret.undefined => ret.value.id = args.id
      /\ ~DecimalFormOfRow(TableOf(o), args.id) => ret = ReturnedUndefined

(***************************************************************************)
(* C28.  Every message returned by searchMessages has a text that holds    *)
(* the query as a literal substring, letters compared without regard to    *)
(* case: '%' and '_' in the query stand for themselves only.               *)
(***************************************************************************)
Folded(t) == [i \in DOMAIN t |-> FoldCase(t[i])]

HoldsLiterally(text, query) == text # null /\ includes(Folded(text), Folded(query))

C28_Original ==
  (Called("searchMessages") /\ ~ret.threw) =>
    \A i \in DOMAIN ret.value : HoldsLiterally(ret.value[i].text, args.query)

(***************************************************************************)
(* C29.  listMessages and searchMessages return each message at most once: *)
(* no two records of a result list have the same id, also when a message   *)
(* row is linked to more than one chat in chat_message_join.               *)
(***************************************************************************)
C29_Original ==
  ((Called("listMessages") \/ Called("searchMessages")) /\ ~ret.threw) =>
    \A i, j \in DOMAIN ret.value : ret.value[i].id = ret.value[j].id => i = j

(***************************************************************************)
(* C30.  A getDatabase call that fails, the store file missing or the open *)
(* raising an error, raises the error to its caller and leaves the cache   *)
(* empty with no handle opened; every getDatabase call on an empty cache   *)
(* tries the open again, and it succeeds and caches the handle as soon as  *)
(* the store can be opened.                                                *)
(***************************************************************************)
Openable == conn.exists /\ conn.openError = << >>

C30_FailedOpen ==
  [][(Serving("getDatabase") /\ conn.dbInstance = 0) =>
       IF Openable
         THEN /\ ~ret'.threw /\ ret'.value # 0
              /\ conn'.dbInstance = ret'.value
              /\ Len(conn'.modes) = Len(conn.modes) + 1
         ELSE /\ ret'.threw /\ ret'.error # << >>
              /\ conn'.dbInstance = 0
              /\ conn'.modes = conn.modes /\ conn'.closed = conn.closed]_vars

\* The open has raised an error other than the access signature.
C30_Witness ==
  /\ Called("getDatabase") /\ ret = Failed(conn.openError)
  /\ conn.exists /\ conn.openError # << >> /\ conn.dbInstance = 0 /\ conn.modes = << >>

=============================================================================
